---- MODULE Spec2Model ----
(***************************************************************************)
(* Gesture interpretation pipeline of gesture-recognition-system:          *)
(* GestureController and its MovementAnalyzer                              *)
(* (backend/app/services/gesture_controller.py).                           *)
(*                                                                         *)
(* Units.  Time is counted in ticks of 0.1 s (time.time(), read by         *)
(* process_gesture and again by analyze_movement within the same tick),    *)
(* confidence in hundredths (0.7 = 70), progress in percent (1.0 = 100)    *)
(* and wrist coordinates in hundredths of the normalized image size        *)
(* (0.10 = 10).  The clock never runs backwards.                           *)
(***************************************************************************)
EXTENDS Integers, Sequences, FiniteSets, TLC

VARIABLES
    now,                        \* wall clock, time.time()
    mode,                       \* GestureController.mode
    active_gesture,             \* GestureController.active_gesture
    gesture_start_time,         \* GestureController.gesture_start_time
    last_action_time,           \* GestureController.last_action_time
    history,                    \* GestureController.history, newest first
    position_buffer,            \* MovementAnalyzer.position_buffer
    last_dynamic_gesture_time,  \* MovementAnalyzer.last_dynamic_gesture_time
    result,                     \* value returned by the last call
    call,                       \* the last call: operation, arguments, swipe
                                \* found, hold before the call
    last_trigger,               \* per mode: times of the last static and of
                                \* the last dynamic trigger returned in it
    frames,                     \* number of calls that carried landmarks
    recognizer,                 \* GestureRecognizer: whether load_model found
                                \* the model and the label encoder
    training,                   \* the training routes: the module's
                                \* TrainingState, the start requests under
                                \* way, the collection loops and the samples
                                \* they saved
    service                     \* the coroutines of the service on the event
                                \* loop: where each one stands (pc), the
                                \* controller state each one found on entering
                                \* its call (seen), the coroutine whose call
                                \* returned last (caller) and the session
                                \* whose call started the hold (holder)

vars == <<now, mode, active_gesture, gesture_start_time, last_action_time,
          history, position_buffer, last_dynamic_gesture_time, result, call,
          last_trigger, frames, recognizer, training, service>>

----------------------------------------------------------------------------
(* Bounds of the model *)

\* time.time() at construction, far above every time constant of the code
StartTime == 30
\* the clock is followed for Horizon ticks after construction (Spec)
Horizon == 10
\* the same for the runs without landmarks (SpecHold)
LongHorizon == 40
\* the same for the safe-mode sessions (SpecSafe)
SafeHorizon == 40
\* at most MaxFrames calls carry landmarks (Spec)
MaxFrames == 5
\* the two wrist coordinates fed to the analyzer, in hundredths
NearCoord == 25
FarCoord == 75
\* the same horizon for the runs that fill the history (SpecLog)
LogHorizon == 1650
\* the same for the runs that drive the analyzer alone (SpecAnalyzer)
AnalyzerHorizon == 20
\* the wrist moves freely while fewer than FreeFrames positions are buffered
\* and then repeats its last three positions (SpecAnalyzer)
FreeFrames == 5
\* the same horizon for the sessions of the service (SpecService)
ServiceHorizon == 20
\* the same horizon for the analyses of whole trajectories (SpecSwipe)
SwipeHorizon == 10
\* the same for the detection loop fed by the recognizer (SpecRecognizer)
RecognizerHorizon == 25
\* at most MaxStarts collect/start requests are accepted (SpecTraining)
MaxStarts == 2

----------------------------------------------------------------------------
(* Program constants *)

hold_duration == 20         \* 2.0 s
cooldown == 10              \* 1.0 s
all_throttle == 5           \* 0.5 s
min_confidence == 70        \* 0.7
history_limit == 100
dynamic_confidence == 100   \* 1.0
buffer_size == 15
analyzer_cooldown == 8      \* 0.8 s
swipe_threshold == 10       \* 0.10
min_positions == 5
mean_window == 3

None == "<None>"

Modes == {"standard", "safe", "all"}

----------------------------------------------------------------------------
(* Inputs *)

Labels == {"fist", "palm"}
\* classifier confidence just below and at the floor
Confs == {min_confidence - 1, min_confidence}
\* ticks between two calls; every step is a multiple of 0.5 s, so that the
\* time differences the code computes in floating point are exact
Steps == {0, 5, 10}
\* the same for the safe-mode sessions
SafeSteps == {0, 10, 15}
\* the same for the runs that fill the history: later than the cooldown
LogSteps == {15}
\* two detection WebSocket connections and the client of the /mode route
Sessions == {"ws1", "ws2"}
Clients == {"http"}
Tasks == Sessions \cup Clients
Positions == {<<NearCoord, NearCoord>>, <<FarCoord, NearCoord>>}
\* one coordinate of the wrist over 5 or 6 frames, in hundredths: at rest,
\* moving evenly at several speeds, and creeping after or before one jump,
\* each in both directions.  No two profiles put a mean shift exactly on the
\* threshold or on the 1.5 ratio, where the result of the code's
\* floating-point comparison depends on rounding
Profiles ==
    {<<50, 50, 50, 50, 50>>,
     <<20, 30, 40, 50, 60>>, <<60, 50, 40, 30, 20>>,
     <<40, 46, 52, 58, 64>>, <<64, 58, 52, 46, 40>>,
     <<40, 43, 46, 49, 52>>,
     <<40, 49, 50, 51, 52>>, <<52, 51, 50, 49, 40>>,
     <<50, 50, 50, 50, 50, 50>>,
     <<20, 30, 40, 50, 60, 70>>, <<70, 60, 50, 40, 30, 20>>}
\* the buffers a hand can leave: an x profile and a y profile of one length
Trajectories ==
    UNION {{[i \in 1..Len(px) |-> <<px[i], py[i]>>] :
               py \in {p \in Profiles : Len(p) = Len(px)}} :
           px \in Profiles}
\* what predict can be handed: the 83-element array of extract_features, an
\* empty array, or a plain list
FeatureInputs ==
    {[type |-> "ndarray", size |-> 83], [type |-> "ndarray", size |-> 0],
     [type |-> "list", size |-> 83]}
\* what the trained model does with an array: it raises, or it predicts a
\* class with a probability
ModelOutcomes ==
    {[raises |-> TRUE]}
        \cup {[raises |-> FALSE, label |-> g, probability |-> c] :
                 g \in Labels, c \in Confs}
\* gesture_name of a /training/collect/start request: two of the
\* VALID_GESTURES and a name that is not one
CollectGestures == {"fist", "open_hand", "wave"}
\* num_samples of the request
NumSamples == {0, 2}
\* what a blocking call of the training pipeline does: it returns (the
\* training script with exit code 0, having written models/metrics.json or
\* not), the script exits with another code, it exceeds its timeout, or the
\* call raises another exception
PipelineOutcomes == {"ok", "no_metrics", "failed", "timeout", "raises"}
\* str(e) of an exception raised by a blocking call
ExceptionText == "No such file or directory"
\* the content of models/metrics.json
MetricsFile == [accuracy |-> 95]
\* what one pass of a collection loop meets: no frame, a frame without a
\* hand, a frame with a hand that cv2.imwrite writes, a frame with a hand
\* that cv2.imwrite does not write (it returns False), or an exception
\* raised by the camera, the hand detector or cv2.imwrite
Frames == {"none", "no_hand", "hand", "unwritten", "raises"}
\* what save_dir.mkdir does when a collection loop starts: it returns, or
\* it raises (data/collected/<gesture> cannot be made a directory)
MkdirOutcomes == {"ok", "raises"}
\* landmarks argument: None/empty, or a hand of which only landmark 0
\* (the wrist) is read
LandmarkInputs == {<<>>} \cup {<<p>> : p \in Positions}
ModeInputs == Modes \cup {"turbo"}

----------------------------------------------------------------------------
(* MovementAnalyzer *)

Abs(n) == IF n < 0 THEN -n ELSE n

Min(a, b) == IF a < b THEN a ELSE b

RECURSIVE SumSeq(_)
SumSeq(s) == IF s = <<>> THEN 0 ELSE Head(s) + SumSeq(Tail(s))

\* position_buffer[:3] and position_buffer[-3:]
FirstN(s, n) == SubSeq(s, 1, Min(n, Len(s)))
LastN(s, n) == SubSeq(s, Len(s) - Min(n, Len(s)) + 1, Len(s))

Xs(s) == [i \in 1..Len(s) |-> s[i][1]]
Ys(s) == [i \in 1..Len(s) |-> s[i][2]]

\* add_position: append the wrist, evict the oldest beyond buffer_size
\* add_position that refuses the new position when the buffer is full
add_position_keeps_oldest(buf, landmarks) ==
    IF landmarks = <<>> THEN buf
    ELSE IF Len(buf) >= buffer_size THEN buf
    ELSE Append(buf, landmarks[1])

add_position(buf, landmarks) ==
    IF landmarks = <<>> THEN buf
    ELSE LET appended == Append(buf, landmarks[1])
         IN IF Len(appended) > buffer_size THEN Tail(appended) ELSE appended

\* 3*dx and 3*dy: the means are over mean_window positions once the buffer
\* holds min_positions, so the sums are compared instead of the means
DeltaX(buf) == SumSeq(Xs(LastN(buf, mean_window))) - SumSeq(Xs(FirstN(buf, mean_window)))
DeltaY(buf) == SumSeq(Ys(LastN(buf, mean_window))) - SumSeq(Ys(FirstN(buf, mean_window)))

\* abs_dx > swipe_threshold and abs_dx > abs_dy * 1.5
Horizontal(dx3, dy3) ==
    /\ Abs(dx3) > mean_window * swipe_threshold
    /\ 2 * Abs(dx3) > 3 * Abs(dy3)

\* a vertical test that only asks for the threshold
VerticalAboveThreshold(dx3, dy3) ==
    Abs(dy3) > mean_window * swipe_threshold

\* abs_dy > swipe_threshold and abs_dy > abs_dx * 1.5
Vertical(dx3, dy3) ==
    /\ Abs(dy3) > mean_window * swipe_threshold
    /\ 2 * Abs(dy3) > 3 * Abs(dx3)

\* a cooldown that has expired as soon as the clock has moved
CooldownUntilNextTick(t, last) == t - last < 1

CooldownActive(t, last) == t - last < analyzer_cooldown

\* analyze_movement that reads the x axis as the mirrored camera image shows it
analyze_movement_mirrored(buf, last, t) ==
    IF CooldownActive(t, last) THEN None
    ELSE IF Len(buf) < min_positions THEN None
    ELSE LET dx3 == DeltaX(buf)
             dy3 == DeltaY(buf)
         IN IF Horizontal(dx3, dy3)
            THEN (IF dx3 < 0 THEN "swipe_right" ELSE "swipe_left")
            ELSE IF Vertical(dx3, dy3)
            THEN (IF dy3 < 0 THEN "swipe_up" ELSE "swipe_down")
            ELSE None

\* analyze_movement that is content with a first and a last window of
\* mean_window positions
analyze_movement_from_window(buf, last, t) ==
    IF CooldownActive(t, last) THEN None
    ELSE IF Len(buf) < mean_window THEN None
    ELSE LET dx3 == DeltaX(buf)
             dy3 == DeltaY(buf)
         IN IF Horizontal(dx3, dy3)
            THEN (IF dx3 < 0 THEN "swipe_left" ELSE "swipe_right")
            ELSE IF Vertical(dx3, dy3)
            THEN (IF dy3 < 0 THEN "swipe_up" ELSE "swipe_down")
            ELSE None

\* analyze_movement: the direction returned, None when nothing is detected
analyze_movement(buf, last, t) ==
    IF CooldownActive(t, last) THEN None
    ELSE IF Len(buf) < min_positions THEN None
    ELSE LET dx3 == DeltaX(buf)
             dy3 == DeltaY(buf)
         IN IF Horizontal(dx3, dy3)
            THEN (IF dx3 < 0 THEN "swipe_left" ELSE "swipe_right")
            ELSE IF Vertical(dx3, dy3)
            THEN (IF dy3 < 0 THEN "swipe_up" ELSE "swipe_down")
            ELSE None

\* str.upper() on the four directions
Upper(d) ==
    CASE d = "swipe_left" -> "SWIPE_LEFT"
      [] d = "swipe_right" -> "SWIPE_RIGHT"
      [] d = "swipe_up" -> "SWIPE_UP"
      [] d = "swipe_down" -> "SWIPE_DOWN"

----------------------------------------------------------------------------
(* GestureController *)

\* the controller's fields together with its analyzer's
State ==
    [mode |-> mode, active_gesture |-> active_gesture,
     gesture_start_time |-> gesture_start_time,
     last_action_time |-> last_action_time, history |-> history,
     position_buffer |-> position_buffer,
     last_dynamic_gesture_time |-> last_dynamic_gesture_time]

\* reset_state that forgets to clear the held gesture
reset_state_keeps_hold(s) ==
    [s EXCEPT !.position_buffer = <<>>]

\* reset_state
reset_state(s) ==
    [s EXCEPT !.active_gesture = None, !.gesture_start_time = 0,
              !.position_buffer = <<>>]

\* set_mode that resets the state before it looks at the mode
set_mode_resets_first(s, m) ==
    IF m \in Modes
    THEN [state |-> reset_state([s EXCEPT !.mode = m]), accepted |-> TRUE]
    ELSE [state |-> reset_state(s), accepted |-> FALSE]

\* set_mode that also empties the history
set_mode_clears_history(s, m) ==
    IF m \in Modes
    THEN [state |-> reset_state([s EXCEPT !.mode = m, !.history = <<>>]),
          accepted |-> TRUE]
    ELSE [state |-> s, accepted |-> FALSE]

\* set_mode that also forgets the time of the last action
set_mode_clears_cooldown(s, m) ==
    IF m \in Modes
    THEN [state |-> reset_state([s EXCEPT !.mode = m, !.last_action_time = 0]),
          accepted |-> TRUE]
    ELSE [state |-> s, accepted |-> FALSE]

\* set_mode that switches the mode without resetting the hold
set_mode_without_reset(s, m) ==
    IF m \in Modes
    THEN [state |-> [s EXCEPT !.mode = m], accepted |-> TRUE]
    ELSE [state |-> s, accepted |-> FALSE]

\* set_mode: the state after the call and the value returned
set_mode(s, m) ==
    IF m \in Modes
    THEN [state |-> reset_state([s EXCEPT !.mode = m]), accepted |-> TRUE]
    ELSE [state |-> s, accepted |-> FALSE]

\* log_action: insert at the front, keep the first history_limit entries
log_action(s, gesture_name, confidence, t) ==
    LET entry == [id |-> Len(s.history) + 1, timestamp |-> t,
                  gesture |-> gesture_name, confidence |-> confidence,
                  mode |-> s.mode]
        inserted == <<entry>> \o s.history
    IN [s EXCEPT !.history = SubSeq(inserted, 1, Min(Len(inserted), history_limit))]

NoTrigger == [action_triggered |-> FALSE, progress |-> 0, message |-> ""]

\* a floor of 0.5 instead of 0.7
BelowHalf(confidence) == confidence < 50

\* confidence < 0.7
BelowFloor(confidence) == confidence < min_confidence

\* a throttle that lets every call through
ThrottleOff(t, last) == t - last >= 0

\* current_time - self.last_action_time > 0.5
ThrottleElapsed(t, last) == t - last > all_throttle

\* the cooldown compared with the 0.5 s throttle instead of self.cooldown
CooldownAsThrottle(t, last) == t - last > all_throttle

\* current_time - self.last_action_time > self.cooldown
CooldownElapsed(t, last) == t - last > cooldown

\* a progress that is not capped
ProgressUncapped(elapsed) == (elapsed * 100) \div hold_duration

\* progress measured against the cooldown instead of the hold duration
ProgressOverCooldown(elapsed) == Min((elapsed * 100) \div cooldown, 100)

\* progress = min(elapsed / self.hold_duration, 1.0), in percent
Progress(elapsed) == Min((elapsed * 100) \div hold_duration, 100)

\* the analyzer's part of process_gesture: add_position, then
\* analyze_movement with its effect on the analyzer when a swipe is found
\* analyze_movement that returns the direction and leaves the buffer filled
analyze_keeps_buffer(s, t) ==
    LET direction == analyze_movement(s.position_buffer,
                                      s.last_dynamic_gesture_time, t)
    IN IF direction = None
       THEN [state |-> s, dynamic |-> None]
       ELSE [state |-> [s EXCEPT !.last_dynamic_gesture_time = t],
             dynamic |-> direction]

analyze(s, t) ==
    LET direction == analyze_movement(s.position_buffer,
                                      s.last_dynamic_gesture_time, t)
    IN IF direction = None
       THEN [state |-> s, dynamic |-> None]
       ELSE [state |-> [s EXCEPT !.last_dynamic_gesture_time = t,
                                 !.position_buffer = <<>>],
             dynamic |-> direction]

\* the "if landmarks:" block of process_gesture
Analyzed(s, t, landmarks) ==
    IF landmarks = <<>>
    THEN [state |-> s, dynamic |-> None]
    ELSE analyze([s EXCEPT !.position_buffer = add_position(@, landmarks)], t)

\* the "all" branch
ProcessAll(s, t, gesture_name) ==
    IF ThrottleElapsed(t, s.last_action_time)
    THEN [state |-> [s EXCEPT !.last_action_time = t],
          result |-> [action_triggered |-> TRUE, progress |-> 0,
                      message |-> "Detected: " \o gesture_name]]
    ELSE [state |-> s, result |-> NoTrigger]

\* a "safe" branch whose trigger leaves the gesture held
ProcessSafeKeepsHold(s, t, gesture_name, confidence) ==
    IF s.active_gesture # gesture_name
    THEN [state |-> [s EXCEPT !.active_gesture = gesture_name,
                              !.gesture_start_time = t],
          result |-> NoTrigger]
    ELSE LET progress == Progress(t - s.gesture_start_time)
         IN IF progress >= 100 /\ CooldownElapsed(t, s.last_action_time)
            THEN [state |-> [log_action(s, gesture_name, confidence, t)
                                EXCEPT !.last_action_time = t],
                  result |-> [action_triggered |-> TRUE, progress |-> progress,
                              message |-> "ACTION EXECUTED: " \o gesture_name]]
            ELSE [state |-> s,
                  result |-> [action_triggered |-> FALSE, progress |-> progress,
                              message |-> ""]]

\* a "safe" branch that triggers without stamping last_action_time
ProcessSafeWithoutStamp(s, t, gesture_name, confidence) ==
    IF s.active_gesture # gesture_name
    THEN [state |-> [s EXCEPT !.active_gesture = gesture_name,
                              !.gesture_start_time = t],
          result |-> NoTrigger]
    ELSE LET progress == Progress(t - s.gesture_start_time)
         IN IF progress >= 100 /\ CooldownElapsed(t, s.last_action_time)
            THEN [state |-> reset_state(log_action(s, gesture_name, confidence, t)),
                  result |-> [action_triggered |-> TRUE, progress |-> progress,
                              message |-> "ACTION EXECUTED: " \o gesture_name]]
            ELSE [state |-> s,
                  result |-> [action_triggered |-> FALSE, progress |-> progress,
                              message |-> ""]]

\* a "safe" branch that keeps the old hold start when the label changes
ProcessSafeKeepsStart(s, t, gesture_name, confidence) ==
    IF s.active_gesture # gesture_name
    THEN [state |-> [s EXCEPT !.active_gesture = gesture_name],
          result |-> [action_triggered |-> FALSE,
                      progress |-> Progress(t - s.gesture_start_time),
                      message |-> ""]]
    ELSE LET progress == Progress(t - s.gesture_start_time)
         IN IF progress >= 100 /\ CooldownElapsed(t, s.last_action_time)
            THEN [state |-> reset_state(
                      [log_action(s, gesture_name, confidence, t)
                          EXCEPT !.last_action_time = t]),
                  result |-> [action_triggered |-> TRUE, progress |-> progress,
                              message |-> "ACTION EXECUTED: " \o gesture_name]]
            ELSE [state |-> s,
                  result |-> [action_triggered |-> FALSE, progress |-> progress,
                              message |-> ""]]

\* the "safe" branch
ProcessSafe(s, t, gesture_name, confidence) ==
    IF s.active_gesture # gesture_name
    THEN [state |-> [s EXCEPT !.active_gesture = gesture_name,
                              !.gesture_start_time = t],
          result |-> NoTrigger]
    ELSE LET progress == Progress(t - s.gesture_start_time)
         IN IF progress >= 100 /\ CooldownElapsed(t, s.last_action_time)
            THEN [state |-> reset_state(
                      [log_action(s, gesture_name, confidence, t)
                          EXCEPT !.last_action_time = t]),
                  result |-> [action_triggered |-> TRUE, progress |-> progress,
                              message |-> "ACTION EXECUTED: " \o gesture_name]]
            ELSE [state |-> s,
                  result |-> [action_triggered |-> FALSE, progress |-> progress,
                              message |-> ""]]

\* a "standard" branch that remembers the gesture it has acted on
ProcessStandardTracksGesture(s, t, gesture_name, confidence) ==
    IF CooldownElapsed(t, s.last_action_time)
    THEN [state |-> [log_action(s, gesture_name, confidence, t)
                        EXCEPT !.last_action_time = t,
                               !.active_gesture = gesture_name,
                               !.gesture_start_time = t],
          result |-> [action_triggered |-> TRUE, progress |-> 0,
                      message |-> "Quick Action: " \o gesture_name]]
    ELSE [state |-> s, result |-> NoTrigger]

\* the "standard" branch
ProcessStandard(s, t, gesture_name, confidence) ==
    IF CooldownElapsed(t, s.last_action_time)
    THEN [state |-> [log_action(s, gesture_name, confidence, t)
                        EXCEPT !.last_action_time = t],
          result |-> [action_triggered |-> TRUE, progress |-> 0,
                      message |-> "Quick Action: " \o gesture_name]]
    ELSE [state |-> s, result |-> NoTrigger]

\* process_gesture that treats a swipe as an action of the static policy:
\* it stamps last_action_time and resets the hold
process_gesture_swipe_as_action(s, t, gesture_name, confidence, landmarks) ==
    LET moved == Analyzed(s, t, landmarks)
        static ==
            IF BelowFloor(confidence)
            THEN [state |-> reset_state(moved.state), result |-> NoTrigger]
            ELSE IF moved.state.mode = "all"
            THEN ProcessAll(moved.state, t, gesture_name)
            ELSE IF moved.state.mode = "safe"
            THEN ProcessSafe(moved.state, t, gesture_name, confidence)
            ELSE IF moved.state.mode = "standard"
            THEN ProcessStandard(moved.state, t, gesture_name, confidence)
            ELSE [state |-> moved.state, result |-> NoTrigger]
        logged == log_action(moved.state, moved.dynamic, dynamic_confidence, t)
    IN IF moved.dynamic # None
       THEN [state |-> reset_state([logged EXCEPT !.last_action_time = t]),
             result |-> [action_triggered |-> TRUE, progress |-> 0,
                         message |-> "DYNAMIC: " \o Upper(moved.dynamic)],
             dynamic |-> moved.dynamic]
       ELSE [state |-> static.state, result |-> static.result, dynamic |-> None]

\* process_gesture whose confidence floor returns without resetting the hold
process_gesture_floor_keeps_hold(s, t, gesture_name, confidence, landmarks) ==
    LET moved == Analyzed(s, t, landmarks)
        static ==
            IF BelowFloor(confidence)
            THEN [state |-> moved.state, result |-> NoTrigger]
            ELSE IF moved.state.mode = "all"
            THEN ProcessAll(moved.state, t, gesture_name)
            ELSE IF moved.state.mode = "safe"
            THEN ProcessSafe(moved.state, t, gesture_name, confidence)
            ELSE IF moved.state.mode = "standard"
            THEN ProcessStandard(moved.state, t, gesture_name, confidence)
            ELSE [state |-> moved.state, result |-> NoTrigger]
    IN IF moved.dynamic # None
       THEN [state |-> log_action(moved.state, moved.dynamic, dynamic_confidence, t),
             result |-> [action_triggered |-> TRUE, progress |-> 0,
                         message |-> "DYNAMIC: " \o Upper(moved.dynamic)],
             dynamic |-> moved.dynamic]
       ELSE [state |-> static.state, result |-> static.result, dynamic |-> None]

\* process_gesture at time t: the state after the call, the value returned
\* and the swipe the analyzer found (None when it found none)
process_gesture(s, t, gesture_name, confidence, landmarks) ==
    LET moved == Analyzed(s, t, landmarks)
        static ==
            IF BelowFloor(confidence)
            THEN [state |-> reset_state(moved.state), result |-> NoTrigger]
            ELSE IF moved.state.mode = "all"
            THEN ProcessAll(moved.state, t, gesture_name)
            ELSE IF moved.state.mode = "safe"
            THEN ProcessSafe(moved.state, t, gesture_name, confidence)
            ELSE IF moved.state.mode = "standard"
            THEN ProcessStandard(moved.state, t, gesture_name, confidence)
            ELSE [state |-> moved.state, result |-> NoTrigger]
    IN IF moved.dynamic # None
       THEN [state |-> log_action(moved.state, moved.dynamic, dynamic_confidence, t),
             result |-> [action_triggered |-> TRUE, progress |-> 0,
                         message |-> "DYNAMIC: " \o Upper(moved.dynamic)],
             dynamic |-> moved.dynamic]
       ELSE [state |-> static.state, result |-> static.result, dynamic |-> None]

----------------------------------------------------------------------------
(* GestureRecognizer (backend/app/services/gesture_recognizer.py) *)

\* the labels predict returns when it cannot classify
Sentinels == {"Model Not Loaded", "Invalid Input", "Empty Features", "Error"}

\* predict that reports a failed prediction with full confidence
predict_error_confident(rec, features, outcome) ==
    IF ~rec.loaded
    THEN [label |-> "Model Not Loaded", confidence |-> 0]
    ELSE IF features.type # "ndarray"
    THEN [label |-> "Invalid Input", confidence |-> 0]
    ELSE IF features.size = 0
    THEN [label |-> "Empty Features", confidence |-> 0]
    ELSE IF outcome.raises
    THEN [label |-> "Error", confidence |-> 100]
    ELSE [label |-> outcome.label, confidence |-> outcome.probability]

\* predict: the (label, confidence) returned for the features, outcome being
\* what the loaded model does with them
predict(rec, features, outcome) ==
    IF ~rec.loaded
    THEN [label |-> "Model Not Loaded", confidence |-> 0]
    ELSE IF features.type # "ndarray"
    THEN [label |-> "Invalid Input", confidence |-> 0]
    ELSE IF features.size = 0
    THEN [label |-> "Empty Features", confidence |-> 0]
    ELSE IF outcome.raises
    THEN [label |-> "Error", confidence |-> 0]
    ELSE [label |-> outcome.label, confidence |-> outcome.probability]

----------------------------------------------------------------------------
(* The training routes (backend/app/api/routes/training.py) *)

VALID_GESTURES == {"fist", "five_fingers", "four_fingers", "ok_sign",
                   "one_finger", "open_hand", "three_fingers", "two_fingers"}

\* the module's TrainingState as constructed, with no request under way
\* (starting, the accepted start requests that wait for the database), no
\* collection loop (loops, in the order they were added as background
\* tasks), no sample saved (saved, the number of files written for each
\* accepted start request) and no training pipeline (pipeline, the place
\* the pipeline's thread stands at); accepted counts the start requests
\* accepted
TrainingState ==
    [is_collecting |-> FALSE, current_gesture |-> None,
     samples_collected |-> 0, target_samples |-> 0, is_training |-> FALSE,
     training_status |-> "idle", training_progress |-> 0,
     training_error |-> None, last_metrics |-> None,
     accepted |-> 0, starting |-> <<>>, loops |-> <<>>, saved |-> <<>>,
     pipeline |-> "none"]

\* start_collection up to its first await: the request is refused, or the
\* state is updated and the coroutine waits for the database
start_collection(tr, gesture_name, num_samples) ==
    IF tr.is_collecting
    THEN [state |-> tr, raised |-> "Already collecting data"]
    ELSE IF tr.is_training
    THEN [state |-> tr, raised |-> "Training in progress"]
    ELSE IF gesture_name \notin VALID_GESTURES
    THEN [state |-> tr, raised |-> "Unknown gesture"]
    ELSE [state |-> [tr EXCEPT !.is_collecting = TRUE,
                               !.current_gesture = gesture_name,
                               !.target_samples =
                                   IF num_samples > 1 THEN num_samples ELSE 1,
                               !.samples_collected = 0,
                               !.accepted = @ + 1,
                               !.saved = Append(@, 0),
                               !.starting = Append(@,
                                   [gesture |-> gesture_name,
                                    collection |-> tr.accepted + 1])],
          raised |-> None]

\* s without its k-th element
Remove(s, k) == SubSeq(s, 1, k - 1) \o SubSeq(s, k + 1, Len(s))

\* start_collection after the database calls, for the k-th of the waiting
\* requests (each waits for its own session, and the database decides which
\* comes back first): the collection loop is added as a background task,
\* with the target the state holds by now
add_task(tr, k) ==
    LET request == tr.starting[k]
    IN [tr EXCEPT !.starting = Remove(@, k),
                  !.loops = Append(@, [gesture |-> request.gesture,
                                       collection |-> request.collection,
                                       target |-> tr.target_samples,
                                       pc |-> "pending", stopped |-> FALSE])]

\* stop_collection; every loop that has not finished is marked as stopped
stop_collection(tr) ==
    IF ~tr.is_collecting
    THEN [state |-> tr, raised |-> "Not collecting"]
    ELSE [state |-> [tr EXCEPT !.is_collecting = FALSE,
                               !.loops = [i \in DOMAIN @ |->
                                   IF @[i].pc = "finished" THEN @[i]
                                   ELSE [@[i] EXCEPT !.stopped = TRUE]]],
          raised |-> None]

\* _collect_data_loop from its start, or from the sleep it stands at, to its
\* next sleep or to its end.  A loop that starts makes its directory first,
\* outside the try: when mkdir raises, the coroutine ends with that
\* exception and the state as it was.  Then loop i tests the while condition
\* and leaves through the finally clause, or handles one frame and sleeps;
\* an exception raised while it handles the frame is caught, and the loop
\* leaves through the finally clause as well.
_collect_data_loop(tr, i, mkdir, frame) ==
    LET loop == tr.loops[i]
        finished == [tr EXCEPT !.is_collecting = FALSE,
                               !.loops[i].pc = "finished"]
    IN IF loop.pc = "pending" /\ mkdir = "raises"
       THEN [state |-> [tr EXCEPT !.loops[i].pc = "finished"],
             raised |-> "OSError"]
       ELSE IF ~(tr.is_collecting /\ tr.samples_collected < loop.target)
       THEN [state |-> finished, raised |-> None]
       ELSE IF frame = "raises"
       THEN [state |-> finished, raised |-> None]
       ELSE IF frame = "hand"
       THEN [state |-> [tr EXCEPT !.saved[loop.collection] = @ + 1,
                                  !.samples_collected = @ + 1,
                                  !.loops[i].pc = "sleeping"],
             raised |-> None]
       ELSE IF frame = "unwritten"
       THEN [state |-> [tr EXCEPT !.samples_collected = @ + 1,
                                  !.loops[i].pc = "sleeping"],
             raised |-> None]
       ELSE [state |-> [tr EXCEPT !.loops[i].pc = "sleeping"],
             raised |-> None]

\* trigger_training: the request is refused, or the state is updated and
\* the pipeline is added as a background task
trigger_training(tr) ==
    IF tr.is_training
    THEN [state |-> tr, raised |-> "Training already in progress"]
    ELSE IF tr.is_collecting
    THEN [state |-> tr, raised |-> "Stop collection before training"]
    ELSE [state |-> [tr EXCEPT !.is_training = TRUE,
                               !.training_status = "preparing",
                               !.training_progress = 0,
                               !.training_error = None,
                               !.last_metrics = None,
                               !.pipeline = "pending"],
          raised |-> None]

\* what the except clauses store for a blocking call that did not return
training_error(outcome) ==
    IF outcome = "timeout" THEN "Training timeout exceeded"
    ELSE IF outcome = "failed" THEN "Training script failed"
    ELSE ExceptionText

\* _run_training_pipeline, one statement of its worker thread at a time: an
\* assignment to the state, or a blocking call together with the assignment
\* that follows its return or its exception.  outcome is that of the
\* blocking call; the other statements do not read it.
_run_training_pipeline(tr, outcome) ==
    LET at == tr.pipeline
        failing == [tr EXCEPT !.training_error = training_error(outcome),
                              !.pipeline = "failing"]
    IN IF at = "pending"
       THEN [tr EXCEPT !.training_status = "preparing",
                       !.pipeline = "preparing"]
       ELSE IF at = "preparing"
       THEN [tr EXCEPT !.training_progress = 10, !.pipeline = "processing"]
       ELSE IF at = "processing"
       THEN IF outcome = "ok"
            THEN [tr EXCEPT !.training_progress = 40,
                            !.pipeline = "combining"]
            ELSE failing
       ELSE IF at = "combining"
       THEN IF outcome = "ok"
            THEN [tr EXCEPT !.training_progress = 60, !.pipeline = "combined"]
            ELSE failing
       ELSE IF at = "combined"
       THEN [tr EXCEPT !.training_status = "training",
                       !.pipeline = "starting"]
       ELSE IF at = "starting"
       THEN [tr EXCEPT !.training_progress = 70, !.pipeline = "training"]
       ELSE IF at = "training"
       THEN IF outcome = "ok"
            THEN [tr EXCEPT !.last_metrics = MetricsFile,
                            !.pipeline = "trained"]
            ELSE IF outcome = "no_metrics"
            THEN [tr EXCEPT !.last_metrics = [status |-> "completed"],
                            !.pipeline = "trained"]
            ELSE failing
       ELSE IF at = "trained"
       THEN [tr EXCEPT !.training_status = "complete",
                       !.pipeline = "completing"]
       ELSE IF at = "completing"
       THEN [tr EXCEPT !.training_progress = 100, !.pipeline = "leaving"]
       ELSE IF at = "failing"
       THEN [tr EXCEPT !.training_status = "error", !.pipeline = "leaving"]
       ELSE [tr EXCEPT !.is_training = FALSE, !.pipeline = "none"]

\* get_training_status
get_training_status(tr) ==
    [is_training |-> tr.is_training, status |-> tr.training_status,
     progress |-> tr.training_progress, error |-> tr.training_error,
     metrics |-> tr.last_metrics]

----------------------------------------------------------------------------
(* The state machine *)

Init ==
    /\ now = StartTime
    /\ mode = "standard"
    /\ active_gesture = None
    /\ gesture_start_time = 0
    /\ last_action_time = 0
    /\ history = <<>>
    /\ position_buffer = <<>>
    /\ last_dynamic_gesture_time = 0
    /\ result = NoTrigger
    /\ call = [op |-> "init"]
    /\ last_trigger = [m \in Modes |-> [static |-> 0, dynamic |-> 0]]
    /\ frames = 0
    /\ recognizer = [loaded |-> TRUE]
    /\ training = TrainingState
    /\ service = [pc |-> [k \in Tasks |-> "awaiting"],
                  seen |-> [k \in Tasks |-> None],
                  caller |-> None, holder |-> None]

Store(s) ==
    /\ mode' = s.mode
    /\ active_gesture' = s.active_gesture
    /\ gesture_start_time' = s.gesture_start_time
    /\ last_action_time' = s.last_action_time
    /\ history' = s.history
    /\ position_buffer' = s.position_buffer
    /\ last_dynamic_gesture_time' = s.last_dynamic_gesture_time

\* a caller invokes set_mode(m)
SetMode(m) ==
    LET out == set_mode(State, m)
    IN /\ Store(out.state)
       /\ result' = [accepted |-> out.accepted]
       /\ call' = [op |-> "set_mode", mode |-> m, held |-> active_gesture,
                   held_since |-> gesture_start_time,
                   buffered |-> Len(position_buffer)]
       /\ UNCHANGED <<now, last_trigger, frames>>

\* a caller invokes process_gesture(gesture_name, confidence, landmarks),
\* d ticks after the previous call
ProcessGesture(d, gesture_name, confidence, landmarks) ==
    LET t == now + d
        out == process_gesture(State, t, gesture_name, confidence, landmarks)
        kind == IF out.dynamic # None THEN "dynamic" ELSE "static"
    IN /\ now' = t
       /\ Store(out.state)
       /\ result' = out.result
       /\ call' = [op |-> "process_gesture", gesture |-> gesture_name,
                   confidence |-> confidence, dynamic |-> out.dynamic,
                   held |-> active_gesture, held_since |-> gesture_start_time]
       /\ last_trigger' = IF out.result.action_triggered
                          THEN [last_trigger EXCEPT ![mode][kind] = t]
                          ELSE last_trigger
       /\ frames' = IF landmarks = <<>> THEN frames ELSE frames + 1

\* process_gesture calls spaced by steps, with landmarks drawn from lms, until
\* horizon ticks after construction
Calls(steps, lms, horizon) ==
    \E d \in steps, g \in Labels, c \in Confs, lm \in lms :
        /\ now + d <= StartTime + horizon
        /\ lm # <<>> => frames < MaxFrames
        /\ ProcessGesture(d, g, c, lm)
        /\ UNCHANGED <<recognizer, training, service>>

Switches(modes) == \E m \in modes : SetMode(m) /\ UNCHANGED <<recognizer, training, service>>

\* every mode, calls with and without landmarks
Next ==
    \/ Calls(Steps, LandmarkInputs, Horizon)
    \/ Switches(ModeInputs)

Spec == Init /\ [][Next]_vars

\* every mode, calls without landmarks (as the service's detection loop
\* makes them), over the longer horizon
NextHold ==
    \/ Calls(Steps, {<<>>}, LongHorizon)
    \/ Switches(ModeInputs)

SpecHold == Init /\ [][NextHold]_vars

\* a session switched to safe mode before its first call, calls with and
\* without landmarks
NextSafe ==
    \/ mode = "safe" /\ Calls(SafeSteps, LandmarkInputs, SafeHorizon)
    \/ Switches({"safe"})

SpecSafe == Init /\ [][NextSafe]_vars

\* a session left in standard mode that shows the two gestures in turn, one
\* every LogSteps ticks, later than the cooldown each time, so that every
\* call triggers
NextLog ==
    \E d \in LogSteps, g \in Labels :
        /\ now + d <= StartTime + LogHorizon
        /\ (g = "fist") <=> (((now - StartTime) \div d) % 2 = 0)
        /\ ProcessGesture(d, g, min_confidence, <<>>)
        /\ UNCHANGED <<recognizer, training, service>>

SpecLog == Init /\ [][NextLog]_vars

\* the same session, which a client may switch to the all mode once the log
\* is full
NextLogModes ==
    \/ NextLog
    \/ Len(history) = history_limit /\ Switches({"all"})

SpecLogModes == Init /\ [][NextLogModes]_vars

\* a caller invokes MovementAnalyzer.add_position(landmarks)
AddPosition(landmarks) ==
    /\ position_buffer' = add_position(position_buffer, landmarks)
    /\ result' = [returned |-> None]
    /\ call' = [op |-> "add_position", landmarks |-> landmarks]
    /\ UNCHANGED <<now, mode, active_gesture, gesture_start_time,
                   last_action_time, history, last_dynamic_gesture_time,
                   last_trigger, frames>>

\* a caller invokes MovementAnalyzer.analyze_movement(), d ticks after the
\* previous call
AnalyzeMovement(d) ==
    LET t == now + d
        out == analyze(State, t)
    IN /\ now' = t
       /\ Store(out.state)
       /\ result' = [returned |-> out.dynamic]
       /\ call' = [op |-> "analyze_movement", buffered |-> Len(position_buffer),
                   analysed |-> position_buffer,
                   last |-> last_trigger[mode].dynamic]
       /\ last_trigger' = IF out.dynamic # None
                          THEN [last_trigger EXCEPT ![mode].dynamic = t]
                          ELSE last_trigger
       /\ UNCHANGED frames

\* a caller invokes GestureController.reset_state()
ResetState ==
    /\ Store(reset_state(State))
    /\ result' = [returned |-> None]
    /\ call' = [op |-> "reset_state"]
    /\ UNCHANGED <<now, last_trigger, frames>>

\* the wrist positions a hand can show next
Trajectory(landmarks) ==
    IF landmarks = <<>> \/ Len(position_buffer) < FreeFrames
    THEN TRUE
    ELSE landmarks = <<position_buffer[Len(position_buffer) - 2]>>

\* the analyzer driven operation by operation
NextAnalyzer ==
    \/ \E lm \in LandmarkInputs :
          Trajectory(lm) /\ AddPosition(lm) /\ UNCHANGED <<recognizer, training, service>>
    \/ \E d \in Steps :
          /\ now + d <= StartTime + AnalyzerHorizon
          /\ AnalyzeMovement(d)
          /\ UNCHANGED <<recognizer, training, service>>
    \/ ResetState /\ UNCHANGED <<recognizer, training, service>>

SpecAnalyzer == Init /\ [][NextAnalyzer]_vars

\* an analyzer whose buffer holds a whole trajectory
InitSwipe ==
    /\ now = StartTime
    /\ mode = "standard"
    /\ active_gesture = None
    /\ gesture_start_time = 0
    /\ last_action_time = 0
    /\ history = <<>>
    /\ position_buffer \in Trajectories
    /\ last_dynamic_gesture_time = 0
    /\ result = NoTrigger
    /\ call = [op |-> "init"]
    /\ last_trigger = [m \in Modes |-> [static |-> 0, dynamic |-> 0]]
    /\ frames = 0
    /\ recognizer = [loaded |-> TRUE]
    /\ training = TrainingState
    /\ service = [pc |-> [k \in Tasks |-> "awaiting"],
                  seen |-> [k \in Tasks |-> None],
                  caller |-> None, holder |-> None]

\* analyze_movement applied to the trajectories, and to what it leaves
NextSwipe ==
    \E d \in Steps :
        /\ now + d <= StartTime + SwipeHorizon
        /\ AnalyzeMovement(d)
        /\ UNCHANGED <<recognizer, training, service>>

SpecSwipe == InitSwipe /\ [][NextSwipe]_vars

\* a recognizer whose load_model has found the model files, or has not
InitRecognizer ==
    /\ now = StartTime
    /\ mode = "standard"
    /\ active_gesture = None
    /\ gesture_start_time = 0
    /\ last_action_time = 0
    /\ history = <<>>
    /\ position_buffer = <<>>
    /\ last_dynamic_gesture_time = 0
    /\ result = NoTrigger
    /\ call = [op |-> "init"]
    /\ last_trigger = [m \in Modes |-> [static |-> 0, dynamic |-> 0]]
    /\ frames = 0
    /\ recognizer \in {[loaded |-> TRUE], [loaded |-> FALSE]}
    /\ training = TrainingState
    /\ service = [pc |-> [k \in Tasks |-> "awaiting"],
                  seen |-> [k \in Tasks |-> None],
                  caller |-> None, holder |-> None]

\* the detection loop classifies the features of the first hand and hands
\* the (label, confidence) of predict to process_gesture, without landmarks,
\* d ticks after the previous call
Recognize(d, features, outcome) ==
    LET t == now + d
        predicted == predict(recognizer, features, outcome)
        out == process_gesture(State, t, predicted.label,
                               predicted.confidence, <<>>)
    IN /\ now' = t
       /\ Store(out.state)
       /\ result' = out.result
       /\ call' = [op |-> "process_gesture", gesture |-> predicted.label,
                   confidence |-> predicted.confidence,
                   dynamic |-> out.dynamic, held |-> active_gesture,
                   held_since |-> gesture_start_time,
                   features |-> features, outcome |-> outcome]
       /\ last_trigger' = IF out.result.action_triggered
                          THEN [last_trigger EXCEPT ![mode].static = t]
                          ELSE last_trigger
       /\ UNCHANGED <<frames, recognizer, training, service>>

\* a detection loop fed by the recognizer, and mode switches
NextRecognizer ==
    \/ \E d \in Steps, f \in FeatureInputs, o \in ModelOutcomes :
          /\ now + d <= StartTime + RecognizerHorizon
          /\ Recognize(d, f, o)
    \/ Switches(ModeInputs)

SpecRecognizer == InitRecognizer /\ [][NextRecognizer]_vars

\* the controller and the recognizer are left alone
OnlyTraining ==
    UNCHANGED <<now, mode, active_gesture, gesture_start_time, last_action_time,
                history, position_buffer, last_dynamic_gesture_time,
                last_trigger, frames, recognizer, service>>

\* a client posts /training/collect/start
StartCollection(gesture_name, num_samples) ==
    LET out == start_collection(training, gesture_name, num_samples)
    IN /\ training' = out.state
       /\ result' = [raised |-> out.raised]
       /\ call' = [op |-> "start_collection", gesture |-> gesture_name]
       /\ OnlyTraining

\* the k-th of the waiting start requests comes back from the database,
\* adds its background task and answers
AddTask(k) ==
    /\ training' = add_task(training, k)
    /\ result' = [status |-> "collecting",
                  gesture |-> training.starting[k].gesture,
                  target_samples |-> training.target_samples]
    /\ call' = [op |-> "add_task"]
    /\ OnlyTraining

\* a client posts /training/collect/stop
StopCollection ==
    LET out == stop_collection(training)
    IN /\ training' = out.state
       /\ result' = [raised |-> out.raised]
       /\ call' = [op |-> "stop_collection"]
       /\ OnlyTraining

\* the event loop runs collection loop i, which has been added or stands at
\* a sleep, up to its next sleep or its end
CollectDataLoop(i, mkdir, frame) ==
    LET out == _collect_data_loop(training, i, mkdir, frame)
    IN /\ training.loops[i].pc # "finished"
       /\ training' = out.state
       /\ result' = IF out.raised = None THEN [returned |-> None]
                    ELSE [raised |-> out.raised]
       /\ call' = [op |-> "_collect_data_loop", loop |-> i]
       /\ OnlyTraining

\* a client posts /training/train
TriggerTraining ==
    LET out == trigger_training(training)
    IN /\ training' = out.state
       /\ result' = IF out.raised = None
                    THEN [raised |-> None, status |-> "started"]
                    ELSE [raised |-> out.raised]
       /\ call' = [op |-> "trigger_training"]
       /\ OnlyTraining

\* the worker thread of the training pipeline runs its next statement
RunTrainingPipeline(outcome) ==
    /\ training.pipeline # "none"
    /\ training' = _run_training_pipeline(training, outcome)
    /\ result' = [returned |-> None]
    /\ call' = [op |-> "_run_training_pipeline"]
    /\ OnlyTraining

\* a client gets /training/train/status
GetTrainingStatus ==
    /\ result' = get_training_status(training)
    /\ call' = [op |-> "get_training_status"]
    /\ UNCHANGED training
    /\ OnlyTraining

\* the outcomes the statement the pipeline stands at can have
OutcomesAt(at) ==
    IF at \in {"processing", "combining"} THEN {"ok", "raises"}
    ELSE IF at = "training" THEN PipelineOutcomes
    ELSE {"ok"}

\* the training routes, the collection loops and the pipeline they start,
\* in every interleaving the event loop and the pipeline's thread allow; no
\* more than MaxStarts start requests are accepted
NextTraining ==
    \/ \E g \in CollectGestures, n \in NumSamples :
          /\ start_collection(training, g, n).raised = None =>
                 training.accepted < MaxStarts
          /\ StartCollection(g, n)
    \/ \E k \in DOMAIN training.starting : AddTask(k)
    \/ StopCollection
    \/ \E i \in DOMAIN training.loops, m \in MkdirOutcomes, f \in Frames :
          CollectDataLoop(i, m, f)
    \/ TriggerTraining
    \/ \E o \in OutcomesAt(training.pipeline) : RunTrainingPipeline(o)
    \/ GetTrainingStatus

SpecTraining == Init /\ [][NextTraining]_vars

----------------------------------------------------------------------------
(* The service: coroutines on one asyncio event loop, one shared controller *)

\* a coroutine that yields even in the middle of a controller call
YieldsAnywhere(pc) == pc \in {"awaiting", "calling"}

\* the coroutine stands at an await (asyncio.sleep, websocket.send_json, or
\* the request not yet dispatched) and has handed the event loop back; the
\* controller calls contain no await
Yields(pc) == pc = "awaiting"

\* the event loop runs task k: every other coroutine stands at an await
Scheduled(k) == \A j \in Tasks \ {k} : Yields(service.pc[j])

\* the session whose call has started the hold that is in progress after a
\* call by task k
Holder(k) ==
    IF active_gesture' = None THEN None
    ELSE IF active_gesture' = active_gesture
            /\ gesture_start_time' = gesture_start_time
    THEN service.holder
    ELSE k

\* task k enters its controller call: process_gesture for a detection loop,
\* set_mode for a /mode request
Enter(k) ==
    /\ Scheduled(k)
    /\ service.pc[k] = "awaiting"
    /\ service' = [service EXCEPT !.pc[k] = "calling", !.seen[k] = State]
    /\ UNCHANGED <<recognizer, training>>
    /\ UNCHANGED <<now, mode, active_gesture, gesture_start_time,
                   last_action_time, history, position_buffer,
                   last_dynamic_gesture_time, result, call, last_trigger,
                   frames>>

\* the call of task k has run to its return and k goes on to its next await
Returned(k) ==
    /\ service' = [service EXCEPT !.pc[k] = "awaiting", !.seen[k] = None,
                                  !.caller = k, !.holder = Holder(k)]
    /\ UNCHANGED <<recognizer, training>>

\* the detection loop of session k calls
\* gesture_controller.process_gesture(label, confidence) on the module's
\* one controller, without landmarks
Detection(k) ==
    \E d \in Steps, g \in Labels, c \in Confs :
        /\ Scheduled(k)
        /\ service.pc[k] = "calling"
        /\ now + d <= StartTime + ServiceHorizon
        /\ ProcessGesture(d, g, c, <<>>)
        /\ Returned(k)

\* the /mode route calls gesture_controller.set_mode(request.mode)
ModeRequest(k) ==
    \E m \in ModeInputs :
        /\ Scheduled(k)
        /\ service.pc[k] = "calling"
        /\ SetMode(m)
        /\ Returned(k)

NextService ==
    \/ \E k \in Tasks : Enter(k)
    \/ \E k \in Sessions : Detection(k)
    \/ \E k \in Clients : ModeRequest(k)

SpecService == Init /\ [][NextService]_vars

----------------------------------------------------------------------------
(* FeatureProcessor (backend/app/services/feature_processor.py) *)

(* A hand is the sequence of its landmarks, landmark k of MediaPipe at       *)
(* position k + 1, each one <<x, y, z>> in tenths of the image size.  The    *)
(* code's square roots and arc cosines are kept exact: a normalized array is *)
(* a record [points, scale2] that stands for points / sqrt(scale2) (for      *)
(* points itself when scale2 = 0), a distance [sq, over] stands for          *)
(* sqrt(sq / over), a vector [at, over] for at / sqrt(over), and an angle    *)
(* [dot, norm1, norm2, over, epsilon] for the arc cosine, in degrees, of     *)
(*   (dot / over) / ((sqrt(norm1 / over) + e) * (sqrt(norm2 / over) + e))    *)
(* clipped to [-1, 1], with e = epsilon.mantissa * 10 ^ epsilon.exponent,    *)
(* the 1e-10 that _calculate_angle_vectors adds to each norm: the angle of   *)
(* two opposite vectors lies a little below 180 degrees, that of two equal   *)
(* vectors a little above 0, the further the shorter the vectors are, and    *)
(* the angle with a zero vector is 90 degrees.                               *)

LANDMARK_NAMES ==
    <<"WRIST", "THUMB_CMC", "THUMB_MCP", "THUMB_IP", "THUMB_TIP",
      "INDEX_FINGER_MCP", "INDEX_FINGER_PIP", "INDEX_FINGER_DIP",
      "INDEX_FINGER_TIP", "MIDDLE_FINGER_MCP", "MIDDLE_FINGER_PIP",
      "MIDDLE_FINGER_DIP", "MIDDLE_FINGER_TIP", "RING_FINGER_MCP",
      "RING_FINGER_PIP", "RING_FINGER_DIP", "RING_FINGER_TIP", "PINKY_MCP",
      "PINKY_PIP", "PINKY_DIP", "PINKY_TIP">>

landmark_count == 21
finger_tips == <<4, 8, 12, 16, 20>>
finger_names == <<"thumb", "index", "middle", "ring", "pinky">>
palm_landmarks == <<0, 5, 9, 13, 17>>
finger_joints ==
    << <<2, 3, 4, "thumb">>, <<5, 6, 7, "index_pip">>,
       <<9, 10, 11, "middle_pip">>, <<13, 14, 15, "ring_pip">>,
       <<17, 18, 19, "pinky_pip">> >>

\* landmarks[k] of the code
At(points, k) == points[k + 1]

Minus(p, q) == <<p[1] - q[1], p[2] - q[2], p[3] - q[3]>>
Plus(p, q) == <<p[1] + q[1], p[2] + q[2], p[3] + q[3]>>
Times(n, p) == <<n * p[1], n * p[2], n * p[3]>>
Dot(p, q) == p[1] * q[1] + p[2] * q[2] + p[3] * q[3]
SqNorm(p) == Dot(p, p)

RECURSIVE MaxOf(_)
MaxOf(s) ==
    IF Len(s) = 1 THEN s[1]
    ELSE LET rest == MaxOf(Tail(s)) IN IF s[1] > rest THEN s[1] ELSE rest

\* the divisor of a normalized array, squared
Scale2(normalized) == IF normalized.scale2 > 0 THEN normalized.scale2 ELSE 1

\* normalize_landmarks that translates to the wrist and never scales
normalize_landmarks_unscaled(landmarks) ==
    IF Len(landmarks) # landmark_count
    THEN [raised |-> "ValueError"]
    ELSE LET points_centered ==
                 [i \in 1..Len(landmarks) |-> Minus(landmarks[i], At(landmarks, 0))]
         IN [returned |-> [points |-> points_centered, scale2 |-> 0]]

\* normalize_landmarks that fits any hand into 21 landmarks: it cuts the
\* surplus and fills what is missing with the wrist
normalize_landmarks_padded(landmarks) ==
    LET fitted == [i \in 1..landmark_count |->
                      IF i <= Len(landmarks) THEN landmarks[i]
                      ELSE IF landmarks = <<>> THEN <<0, 0, 0>>
                      ELSE landmarks[1]]
        points_centered == [i \in 1..landmark_count |-> Minus(fitted[i], fitted[1])]
        max_distance2 == MaxOf([i \in 1..landmark_count |-> SqNorm(points_centered[i])])
    IN [returned |-> [points |-> points_centered, scale2 |-> max_distance2]]

normalize_landmarks(landmarks) ==
    IF Len(landmarks) # landmark_count
    THEN [raised |-> "ValueError"]
    ELSE LET points_centered ==
                 [i \in 1..Len(landmarks) |-> Minus(landmarks[i], At(landmarks, 0))]
             max_distance2 ==
                 MaxOf([i \in 1..Len(landmarks) |-> SqNorm(points_centered[i])])
         IN [returned |-> [points |-> points_centered, scale2 |-> max_distance2]]

\* np.linalg.norm(p - q) for two normalized landmarks
Distance(normalized, p, q) ==
    [sq |-> SqNorm(Minus(p, q)), over |-> Scale2(normalized)]

\* calculate_distances: the dictionary as its items in insertion order
calculate_distances(normalized) ==
    LET landmarks == normalized.points
        wrist == At(landmarks, 0)
        \* five times np.mean(landmarks[[0, 5, 9, 13, 17]], axis=0)
        palm_sum == Plus(Plus(Plus(At(landmarks, palm_landmarks[1]),
                                   At(landmarks, palm_landmarks[2])),
                              Plus(At(landmarks, palm_landmarks[3]),
                                   At(landmarks, palm_landmarks[4]))),
                         At(landmarks, palm_landmarks[5]))
        to_wrist == [i \in 1..5 |->
                        <<finger_names[i] \o "_tip_to_wrist",
                          Distance(normalized, At(landmarks, finger_tips[i]), wrist)>>]
        to_palm == [i \in 1..5 |->
                       <<finger_names[i] \o "_tip_to_palm",
                         [sq |-> SqNorm(Minus(Times(5, At(landmarks, finger_tips[i])),
                                              palm_sum)),
                          over |-> 25 * Scale2(normalized)]>>]
        adjacent == [i \in 1..4 |->
                        <<finger_names[i] \o "_to_" \o finger_names[i + 1] \o "_tip",
                          Distance(normalized, At(landmarks, finger_tips[i + 1]),
                                   At(landmarks, finger_tips[i]))>>]
    IN to_wrist \o to_palm \o adjacent

\* landmarks[k] of a normalized array
Landmark(normalized, k) ==
    [at |-> At(normalized.points, k), over |-> Scale2(normalized)]

\* the difference of two points of one normalized array
Difference(p, q) == [at |-> Minus(p.at, q.at), over |-> p.over]

\* the 1e-10 added to a norm before the division
norm_epsilon == [mantissa |-> 1, exponent |-> -10]

\* _calculate_angle_vectors: each vector is divided by its norm plus
\* norm_epsilon, then comes the arc cosine of the clipped dot product
_calculate_angle_vectors(vector1, vector2) ==
    [dot |-> Dot(vector1.at, vector2.at),
     norm1 |-> SqNorm(vector1.at), norm2 |-> SqNorm(vector2.at),
     over |-> vector1.over, epsilon |-> norm_epsilon]

_calculate_angle_3points(point1, point2, point3) ==
    _calculate_angle_vectors(Difference(point1, point2),
                             Difference(point3, point2))

\* calculate_angles: the dictionary as its items in insertion order
calculate_angles(normalized) ==
    LET bends == [i \in 1..Len(finger_joints) |->
                     <<finger_joints[i][4] \o "_angle",
                       _calculate_angle_3points(
                           Landmark(normalized, finger_joints[i][1]),
                           Landmark(normalized, finger_joints[i][2]),
                           Landmark(normalized, finger_joints[i][3]))>>]
        thumb_base == Landmark(normalized, 2)
        pinky_base == Landmark(normalized, 17)
        wrist == Landmark(normalized, 0)
    IN Append(bends, <<"palm_orientation",
                       _calculate_angle_vectors(Difference(pinky_base, thumb_base),
                                                Difference(wrist, thumb_base))>>)

\* normalized_landmarks.flatten(): landmark after landmark, x, y, z
Flatten(normalized) ==
    [i \in 1..(3 * Len(normalized.points)) |->
        [coordinate |-> normalized.points[((i - 1) \div 3) + 1][((i - 1) % 3) + 1],
         over |-> Scale2(normalized)]]

\* list(dictionary.values())
Values(items) == [i \in 1..Len(items) |-> items[i][2]]

extract_features(landmarks) ==
    LET normalized_landmarks == normalize_landmarks(landmarks)
    IN IF "raised" \in DOMAIN normalized_landmarks
       THEN normalized_landmarks
       ELSE [returned |->
                Flatten(normalized_landmarks.returned)
                \o Values(calculate_distances(normalized_landmarks.returned))
                \o Values(calculate_angles(normalized_landmarks.returned))]

\* get_feature_names that lists the palm distances before the wrist distances
get_feature_names_palm_first ==
    LET coordinates == [i \in 1..(3 * Len(LANDMARK_NAMES)) |->
                           LANDMARK_NAMES[((i - 1) \div 3) + 1]
                               \o <<"_x", "_y", "_z">>[((i - 1) % 3) + 1]]
        to_wrist == [i \in 1..5 |-> finger_names[i] \o "_tip_to_wrist"]
        to_palm == [i \in 1..5 |-> finger_names[i] \o "_tip_to_palm"]
        adjacent == [i \in 1..4 |->
                        finger_names[i] \o "_to_" \o finger_names[i + 1] \o "_tip"]
    IN coordinates \o to_palm \o to_wrist \o adjacent
       \o <<"thumb_angle", "index_pip_angle", "middle_pip_angle",
             "ring_pip_angle", "pinky_pip_angle", "palm_orientation">>

get_feature_names ==
    LET coordinates == [i \in 1..(3 * Len(LANDMARK_NAMES)) |->
                           LANDMARK_NAMES[((i - 1) \div 3) + 1]
                               \o <<"_x", "_y", "_z">>[((i - 1) % 3) + 1]]
        to_wrist == [i \in 1..5 |-> finger_names[i] \o "_tip_to_wrist"]
        to_palm == [i \in 1..5 |-> finger_names[i] \o "_tip_to_palm"]
        adjacent == [i \in 1..4 |->
                        finger_names[i] \o "_to_" \o finger_names[i + 1] \o "_tip"]
    IN coordinates \o to_wrist \o to_palm \o adjacent
       \o <<"thumb_angle", "index_pip_angle", "middle_pip_angle",
             "ring_pip_angle", "pinky_pip_angle", "palm_orientation">>

(* Inputs *)

\* the finger (0..4) and the joint along it (0..3) of landmark k >= 1
FingerOf(k) == (k - 1) \div 4
JointOf(k) == (k - 1) % 4

\* five hands: spread open, clenched, collapsed into one point, with every
\* finger stretched out in a straight line, and with every finger folded
\* back onto itself (the third joint on the first)
Shapes ==
    {[i \in 1..landmark_count |->
         IF i = 1 THEN <<5, 9, 0>>
         ELSE <<1 + 2 * FingerOf(i - 1), 7 - 2 * JointOf(i - 1), JointOf(i - 1) % 2>>],
     [i \in 1..landmark_count |->
         IF i = 1 THEN <<5, 9, 1>>
         ELSE <<3 + FingerOf(i - 1), 7 - (JointOf(i - 1) % 2), JointOf(i - 1)>>],
     [i \in 1..landmark_count |-> <<5, 5, 0>>],
     [i \in 1..landmark_count |->
         IF i = 1 THEN <<5, 9, 0>>
         ELSE <<1 + 2 * FingerOf(i - 1), 7 - 2 * JointOf(i - 1), 0>>],
     [i \in 1..landmark_count |->
         IF i = 1 THEN <<5, 9, 0>>
         ELSE <<1 + 2 * FingerOf(i - 1), 7 - 2 * (JointOf(i - 1) % 2),
                JointOf(i - 1) % 2>>]}

Translations ==
    {<<0, 0, 0>>, <<2, 0, 0>>, <<0, 3, 0>>, <<0, 0, 1>>, <<1, 1, 1>>,
     <<-1, 0, 2>>, <<4, -1, 0>>, <<3, 3, 3>>}
Scales == {1, 2, 3}

\* the hand scaled by s about the origin and then moved by t
Transform(hand, t, s) == [i \in 1..Len(hand) |-> Plus(Times(s, hand[i]), t)]

\* hands of 21 landmarks
Hands == {Transform(h, t, s) : h \in Shapes, t \in Translations, s \in Scales}

\* hands of no, 20 and 22 landmarks
BrokenHands ==
    {<<>>} \cup {SubSeq(h, 1, landmark_count - 1) : h \in Shapes}
           \cup {Append(h, h[1]) : h \in Shapes}

(* The callers of the processor *)

Untouched ==
    UNCHANGED <<now, mode, active_gesture, gesture_start_time, last_action_time,
                history, position_buffer, last_dynamic_gesture_time,
                last_trigger, frames, recognizer, training, service>>

NormalizeLandmarks(landmarks) ==
    /\ result' = normalize_landmarks(landmarks)
    /\ call' = [op |-> "normalize_landmarks", landmarks |-> landmarks]
    /\ Untouched

ExtractFeatures(landmarks) ==
    /\ result' = extract_features(landmarks)
    /\ call' = [op |-> "extract_features", landmarks |-> landmarks]
    /\ Untouched

GetFeatureNames ==
    /\ result' = [returned |-> get_feature_names]
    /\ call' = [op |-> "get_feature_names"]
    /\ Untouched

NextFeatures ==
    \/ \E h \in Hands \cup BrokenHands : NormalizeLandmarks(h)
    \/ \E h \in Hands \cup BrokenHands : ExtractFeatures(h)
    \/ GetFeatureNames

SpecFeatures == Init /\ [][NextFeatures]_vars

----------------------------------------------------------------------------
(* Properties *)

Max(a, b) == IF a > b THEN a ELSE b

\* the step is a process_gesture call
Called == call'.op = "process_gesture"

\* ... at or above the confidence floor
Confident == Called /\ call'.confidence >= min_confidence

\* ... in which the analyzer found no swipe
NoSwipe == Called /\ call'.dynamic = None

\* the label and confidence a triggering call logs
LoggedGesture == IF call'.dynamic # None THEN call'.dynamic ELSE call'.gesture
LoggedConfidence == IF call'.dynamic # None THEN dynamic_confidence ELSE call'.confidence

\* C1: every process_gesture call that returns action_triggered=true
\* prepends exactly one entry to the history, carrying the triggering label,
\* its confidence and the mode in force; a call that returns
\* action_triggered=false leaves the history unchanged.
C1_TriggerLogged ==
    [][Called =>
          IF result'.action_triggered
          THEN /\ Len(history') = Len(history) + 1
               /\ Tail(history') = history
               /\ Head(history').gesture = LoggedGesture
               /\ Head(history').confidence = LoggedConfidence
               /\ Head(history').mode = mode
          ELSE history' = history]_vars

\* C2: in every mode a call with confidence < 0.7 in which no swipe is
\* detected returns action_triggered=false, progress 0 and an empty message,
\* clears the held gesture and the hold start, and leaves the history and
\* last_action_time unchanged.
C2_LowConfidence ==
    [][(NoSwipe /\ call'.confidence < min_confidence) =>
          /\ result' = [action_triggered |-> FALSE, progress |-> 0, message |-> ""]
          /\ active_gesture' = None
          /\ gesture_start_time' = 0
          /\ history' = history
          /\ last_action_time' = last_action_time
          /\ mode' = mode]_vars

\* a low-confidence call has interrupted a hold after an action was logged
C2_Witness ==
    /\ call.op = "process_gesture"
    /\ call.confidence < min_confidence
    /\ call.dynamic = None
    /\ call.held # None
    /\ history # <<>>
    /\ active_gesture = None

\* C3: in standard mode a call with confidence >= 0.7 and no swipe, made at
\* least 1.0 s (exactly 1.0 s included) after the previous call, returns
\* action_triggered=true.
C3_SpacedCallsTrigger ==
    [][(Confident /\ NoSwipe /\ mode = "standard"
          /\ call.op = "process_gesture" /\ now' - now >= cooldown) =>
          result'.action_triggered]_vars

\* C4: in standard mode two static triggers are at least 1.0 s apart, and a
\* call within 1.0 s of the last static trigger does not trigger statically,
\* whatever its label.
C4_StandardDebounce ==
    [][(NoSwipe /\ mode = "standard") =>
          /\ result'.action_triggered =>
                 now' - last_trigger["standard"].static >= cooldown
          /\ now' - last_trigger["standard"].static <= cooldown =>
                 ~result'.action_triggered]_vars

\* a call with another label was suppressed inside the cooldown of a trigger
C4_Witness ==
    /\ call.op = "process_gesture"
    /\ mode = "standard"
    /\ call.confidence >= min_confidence
    /\ ~result.action_triggered
    /\ history # <<>>
    /\ history[1].mode = "standard"
    /\ history[1].gesture # call.gesture
    /\ now - last_trigger["standard"].static < cooldown
    /\ now > last_trigger["standard"].static

\* the call continues the hold of its own label, at most hold_duration old
ContinuesHold ==
    /\ Confident
    /\ mode = "safe"
    /\ active_gesture = call'.gesture
    /\ now' - gesture_start_time <= hold_duration

\* C5 as stated: in safe mode the calls of a run with one label and
\* confidence >= 0.7 return action_triggered=true on the call 2.0 s after the
\* run's first call and on no earlier call of the run.
C5_HoldTriggersOnce ==
    [][/\ (Confident /\ mode = "safe" /\ active_gesture = None) =>
              ~result'.action_triggered
       /\ ContinuesHold =>
              (result'.action_triggered <=> now' - gesture_start_time = hold_duration)]_vars

\* C5 amended: the same for the calls of the run in which no swipe is
\* detected.
C5_HoldTriggersOnceStatic ==
    [][/\ (Confident /\ NoSwipe /\ mode = "safe" /\ active_gesture = None) =>
              ~result'.action_triggered
       /\ (ContinuesHold /\ NoSwipe) =>
              (result'.action_triggered <=> now' - gesture_start_time = hold_duration)]_vars

\* a hold has triggered exactly hold_duration after it began
C5_Witness ==
    /\ call.op = "process_gesture"
    /\ mode = "safe"
    /\ call.dynamic = None
    /\ call.held = call.gesture
    /\ now - call.held_since = hold_duration
    /\ result.action_triggered

\* the call carries a label other than the held one (or none is held)
ChangesLabel ==
    /\ Confident
    /\ mode = "safe"
    /\ active_gesture # call'.gesture

StartsHold ==
    /\ result'.progress = 0
    /\ ~result'.action_triggered
    /\ active_gesture' = call'.gesture
    /\ gesture_start_time' = now'

\* C6 as stated: in safe mode a call with confidence >= 0.7 whose label
\* differs from the held gesture returns progress 0 and
\* action_triggered=false and starts the hold of its label at the call time.
C6_LabelChangeRestarts == [][ChangesLabel => StartsHold]_vars

\* C6 amended: the same for a call in which no swipe is detected.
C6_LabelChangeRestartsStatic == [][(ChangesLabel /\ NoSwipe) => StartsHold]_vars

\* another label has replaced a hold that had accumulated time
C6_Witness ==
    /\ call.op = "process_gesture"
    /\ mode = "safe"
    /\ call.dynamic = None
    /\ call.confidence >= min_confidence
    /\ call.held \notin {None, call.gesture}
    /\ now > call.held_since
    /\ active_gesture = call.gesture
    /\ gesture_start_time = now

\* the last call was a trigger of the safe-mode policy
SafeTriggered ==
    /\ call.op = "process_gesture"
    /\ call.dynamic = None
    /\ mode = "safe"
    /\ result.action_triggered

\* C7: after a safe-mode trigger (a trigger of the hold policy) no gesture
\* is held; two safe-mode triggers are at least 2.0 s apart; the call that
\* follows a trigger with the same label returns progress 0 and does not
\* trigger, with or without landmarks.
C7_TriggerClearsHold ==
    [][/\ SafeTriggered' =>
              /\ active_gesture' = None
              /\ gesture_start_time' = 0
              /\ now' - last_trigger["safe"].static >= hold_duration
       /\ (SafeTriggered /\ Called /\ call'.gesture = call.gesture) =>
              /\ result'.progress = 0
              /\ ~result'.action_triggered]_vars

\* the same label has triggered a second time in safe mode
C7_Witness ==
    /\ SafeTriggered
    /\ Len(history) >= 2
    /\ history[2].mode = "safe"
    /\ history[2].gesture = call.gesture

\* C8 as stated: in all mode no two calls that return action_triggered=true
\* are less than 0.5 s apart.
C8_AllThrottle ==
    [][(Called /\ mode = "all" /\ result'.action_triggered) =>
          now' - Max(last_trigger["all"].static, last_trigger["all"].dynamic)
              >= all_throttle]_vars

\* C8 amended: in all mode no two static triggers (triggering calls in which
\* no swipe is detected) are less than 0.5 s apart, and a call inside the
\* 0.5 s after a static trigger does not trigger statically.
C8_AllThrottleStatic ==
    [][(NoSwipe /\ mode = "all") =>
          /\ result'.action_triggered =>
                 now' - last_trigger["all"].static >= all_throttle
          /\ now' - last_trigger["all"].static < all_throttle =>
                 ~result'.action_triggered]_vars

\* a call with another label was throttled right after a static trigger
C8_Witness ==
    /\ call.op = "process_gesture"
    /\ mode = "all"
    /\ call.dynamic = None
    /\ call.confidence >= min_confidence
    /\ ~result.action_triggered
    /\ last_trigger["all"].static > 0
    /\ now - last_trigger["all"].static < all_throttle

\* C9: in all mode a call with confidence >= 0.7 and no swipe, made at least
\* 0.5 s (exactly 0.5 s included) after last_action_time, returns
\* action_triggered=true and sets last_action_time to the call time.
C9_AllFiresAtThrottle ==
    [][(Confident /\ NoSwipe /\ mode = "all"
          /\ now' - last_action_time >= all_throttle) =>
          /\ result'.action_triggered
          /\ last_action_time' = now']_vars

\* the last operation was an accepted set_mode
Switched == call.op = "set_mode" /\ result.accepted

\* C10: an accepted set_mode clears the held gesture and the hold start, and
\* the next call follows the new mode's rule: in standard it triggers as soon
\* as the cooldown allows, holding nothing; in safe it starts the hold of
\* its label from progress 0; in all it triggers as soon as the throttle
\* allows.
C10_SwitchDiscardsHold ==
    [][/\ Switched' =>
              /\ mode' = call'.mode
              /\ active_gesture' = None
              /\ gesture_start_time' = 0
       /\ (Switched /\ Confident /\ mode = "standard") =>
              /\ result'.action_triggered <=> now' - last_action_time > cooldown
              /\ result'.progress = 0
              /\ active_gesture' = None
       /\ (Switched /\ Confident /\ mode = "safe") =>
              /\ result'.progress = 0
              /\ ~result'.action_triggered
              /\ active_gesture' = call'.gesture
              /\ gesture_start_time' = now'
       /\ (Switched /\ Confident /\ mode = "all") =>
              /\ result'.action_triggered <=> now' - last_action_time > all_throttle
              /\ active_gesture' = None]_vars

\* set_mode("standard") has interrupted a hold that had accumulated time
C10_Witness ==
    /\ Switched
    /\ call.mode = "standard"
    /\ call.held # None
    /\ now > call.held_since
    /\ active_gesture = None
    /\ gesture_start_time = 0

\* the fields of the controller and of its analyzer are left as they were
ControllerUnchanged ==
    UNCHANGED <<mode, active_gesture, gesture_start_time, last_action_time,
                history, position_buffer, last_dynamic_gesture_time>>

\* C11: set_mode with a value other than standard, safe or all reports
\* failure and leaves mode, held gesture, hold start, last_action_time,
\* history and movement buffer unchanged.
C11_InvalidModeRejected ==
    [][(call'.op = "set_mode" /\ call'.mode \notin {"standard", "safe", "all"}) =>
          /\ result' = [accepted |-> FALSE]
          /\ ControllerUnchanged]_vars

\* an unknown mode was refused in the middle of a hold, with positions
\* buffered and actions logged
C11_Witness ==
    /\ call.op = "set_mode"
    /\ call.mode = "turbo"
    /\ ~result.accepted
    /\ active_gesture # None
    /\ gesture_start_time > 0
    /\ position_buffer # <<>>
    /\ history # <<>>
    /\ mode = "safe"

\* C12: an accepted set_mode(m) sets the mode to m, clears the held gesture
\* and the hold start, empties the movement buffer and leaves the history
\* unchanged.
C12_AcceptedModeResets ==
    [][(call'.op = "set_mode" /\ call'.mode \in {"standard", "safe", "all"}) =>
          /\ result' = [accepted |-> TRUE]
          /\ mode' = call'.mode
          /\ active_gesture' = None
          /\ gesture_start_time' = 0
          /\ position_buffer' = <<>>
          /\ history' = history]_vars

\* a mode switch has cleared a hold and a non-empty buffer and kept the log
C12_Witness ==
    /\ call.op = "set_mode"
    /\ result.accepted
    /\ call.held # None
    /\ call.buffered > 0
    /\ position_buffer = <<>>
    /\ active_gesture = None
    /\ history # <<>>
    /\ mode = call.mode

\* history entries from the newest to the oldest carry strictly decreasing
\* timestamps
NewestFirst(h) ==
    \A i, j \in 1..Len(h) : i < j => h[i].timestamp > h[j].timestamp

\* C13: the history holds at most 100 entries, most recent first, and a
\* trigger on a full log, in whatever mode, drops the oldest entry and no
\* other.  (The calls of SpecLog and SpecLogModes are more than a tick
\* apart, so the timestamps tell the order in which the entries were
\* appended.)
C13_LogCapped ==
    [][Called =>
          /\ Len(history') <= 100
          /\ NewestFirst(history')
          /\ (result'.action_triggered /\ Len(history) = 100) =>
                /\ Head(history').timestamp = now'
                /\ Tail(history') = SubSeq(history, 1, 99)]_vars

\* the message a swipe in the given direction is reported with
DynamicMessage(direction) ==
    CASE direction = "swipe_left" -> "DYNAMIC: SWIPE_LEFT"
      [] direction = "swipe_right" -> "DYNAMIC: SWIPE_RIGHT"
      [] direction = "swipe_up" -> "DYNAMIC: SWIPE_UP"
      [] direction = "swipe_down" -> "DYNAMIC: SWIPE_DOWN"

\* C14: a call in which the analyzer detects a swipe returns
\* action_triggered=true with message "DYNAMIC: <DIRECTION>" and progress 0,
\* appends a history entry labelled with the direction at confidence 1.0, and
\* leaves the held gesture, the hold start and last_action_time unchanged,
\* whatever the call's label, confidence and mode.
C14_SwipeShortCircuits ==
    [][(Called /\ call'.dynamic # None) =>
          /\ result' = [action_triggered |-> TRUE, progress |-> 0,
                        message |-> DynamicMessage(call'.dynamic)]
          /\ Len(history') = Len(history) + 1
          /\ Tail(history') = history
          /\ Head(history').gesture = call'.dynamic
          /\ Head(history').confidence = 100
          /\ UNCHANGED <<mode, active_gesture, gesture_start_time,
                         last_action_time>>]_vars

\* a swipe was detected in safe mode by a call below the confidence floor,
\* in the middle of a hold that it left in place
C14_Witness ==
    /\ call.op = "process_gesture"
    /\ call.dynamic \in {"swipe_left", "swipe_right"}
    /\ call.confidence < min_confidence
    /\ mode = "safe"
    /\ active_gesture # None
    /\ active_gesture # call.gesture
    /\ gesture_start_time > 0
    /\ history # <<>>
    /\ history[1].gesture = call.dynamic

\* C15: the low-confidence reset (confidence < 0.7) does not clear the
\* movement buffer: the positions buffered before such a call, and the one
\* the call adds, are still buffered after it.
C15_LowConfidenceKeepsBuffer ==
    [][(NoSwipe /\ call'.confidence < 70 /\ Len(position_buffer) < 15) =>
          /\ Len(position_buffer') >= Len(position_buffer)
          /\ SubSeq(position_buffer', 1, Len(position_buffer)) = position_buffer
          /\ frames' > frames => Len(position_buffer') = Len(position_buffer) + 1]_vars

\* C18: the movement buffer holds at most 15 positions, the most recently
\* added ones in arrival order: add_position appends, and evicts exactly the
\* oldest position when the buffer is full; analyze and reset leave the
\* buffer as it is or empty it.
C18_BufferKeepsNewest ==
    [][/\ Len(position_buffer') <= 15
       /\ (call'.op = "add_position" /\ call'.landmarks # <<>>) =>
             position_buffer' =
                 (IF Len(position_buffer) < 15 THEN position_buffer
                  ELSE Tail(position_buffer)) \o <<call'.landmarks[1]>>
       /\ (call'.op = "add_position" /\ call'.landmarks = <<>>) =>
             position_buffer' = position_buffer
       /\ call'.op \in {"analyze_movement", "reset_state"} =>
             position_buffer' \in {position_buffer, <<>>}]_vars

\* a position was added to a full buffer and pushed out a different one
C18_Witness ==
    /\ call.op = "add_position"
    /\ call.landmarks # <<>>
    /\ Len(position_buffer) = 15
    /\ position_buffer[15] = call.landmarks[1]
    /\ position_buffer[12] = call.landmarks[1]
    /\ position_buffer[1] # position_buffer[15]
    /\ position_buffer[2] # position_buffer[1]

\* the step is an analyze_movement call that returns a direction
Detected == call'.op = "analyze_movement" /\ result'.returned # None

\* C19: analyze_movement never returns a direction while fewer than 5
\* positions are buffered, so that 5 positions must be added after every
\* buffer clear before the next swipe is detected.
C19_FivePositionsNeeded ==
    [][Detected => Len(position_buffer) >= 5 /\ position_buffer' = <<>>]_vars

\* a second swipe was detected, on the 5 positions added since the first
\* detection emptied the buffer
C19_Witness ==
    /\ call.op = "analyze_movement"
    /\ result.returned \in {"swipe_left", "swipe_right"}
    /\ call.buffered = 5
    /\ call.last > 0
    /\ position_buffer = <<>>

\* C20: two swipe detections of one analyzer are at least the cooldown
\* (0.8 s) apart: analyze_movement returns none while less than 0.8 s has
\* passed since the last detection, whatever the buffer holds.
C20_DetectionsApart ==
    [][/\ (Detected /\ call'.last > 0) => now' - call'.last >= 8
       /\ (call'.op = "analyze_movement" /\ call'.last > 0
             /\ now' - call'.last < 8) =>
             result'.returned = None /\ position_buffer' = position_buffer]_vars

\* inside the cooldown window an analysis returned none on a buffer that
\* holds a complete swipe
C20_Witness ==
    /\ call.op = "analyze_movement"
    /\ result.returned = None
    /\ call.last > 0
    /\ now - call.last < 8
    /\ Len(position_buffer) >= 5
    /\ Horizontal(DeltaX(position_buffer), DeltaY(position_buffer))

\* the step is the return of a process_gesture call made by session k
DetectionBy(k) ==
    /\ Called
    /\ service.pc[k] = "calling"
    /\ service'.pc[k] = "awaiting"

\* C16: a controller is driven by one session only: a process_gesture call
\* of one session never finds, and so never restarts, extends or completes,
\* a hold that a call of another session has started.
C16_SessionsIsolated ==
    [][\A k \in Sessions :
          (DetectionBy(k) /\ call'.held # None) => service.holder = k]_vars

\* C17: controller calls interleave at whole-call granularity: while a
\* process_gesture or set_mode call is in progress no other call is, and the
\* controller state is the one the call found when it was entered.
C17_CallsAtomic ==
    /\ Cardinality({k \in Tasks : service.pc[k] = "calling"}) <= 1
    /\ \A k \in Tasks : service.pc[k] = "calling" => service.seen[k] = State

\* a detection loop is inside process_gesture on a hold that the other
\* session's last call has left, with the mode request still to come
C17_Witness ==
    /\ service.pc["ws1"] = "calling"
    /\ service.caller = "ws2"
    /\ service.pc["ws2"] = "awaiting"
    /\ service.pc["http"] = "awaiting"
    /\ mode = "safe"
    /\ active_gesture # None
    /\ service.seen["ws1"] = State

\* the x coordinates of the buffer rise (sign = 1) or fall (sign = -1)
\* strictly from each position to the next while y stays fixed, and the last
\* x lies more than the threshold away from the first
Sweeps(buf, sign) ==
    /\ Len(buf) >= 5
    /\ \A i \in 1..(Len(buf) - 1) :
          /\ sign * (buf[i + 1][1] - buf[i][1]) > 0
          /\ buf[i + 1][2] = buf[i][2]
    /\ sign * (buf[Len(buf)][1] - buf[1][1]) > 10

\* three times the mean x of the last 3 positions minus the mean x of the
\* first 3
MeanShiftX(buf) ==
    (buf[Len(buf)][1] + buf[Len(buf) - 1][1] + buf[Len(buf) - 2][1])
        - (buf[1][1] + buf[2][1] + buf[3][1])

\* the step is an analyze_movement call made with the cooldown elapsed
AnalysedAfterCooldown ==
    /\ call'.op = "analyze_movement"
    /\ now' - last_dynamic_gesture_time >= 8

\* C21: with the cooldown elapsed, a buffer of at least 5 positions with
\* strictly increasing x and fixed y whose last x exceeds its first x by more
\* than 0.10 makes analyze_movement return the rightward swipe, and the same
\* with strictly decreasing x the leftward swipe.
C21_SweepDetected ==
    [][AnalysedAfterCooldown =>
          /\ Sweeps(position_buffer, 1) => result'.returned = "swipe_right"
          /\ Sweeps(position_buffer, -1) => result'.returned = "swipe_left"]_vars

\* C21 (amended): the same when the mean x of the last 3 positions exceeds the
\* mean x of the first 3 by more than 0.10 (is below it by more than 0.10).
C21_SweepDetectedByMeans ==
    [][AnalysedAfterCooldown =>
          /\ (Sweeps(position_buffer, 1) /\ MeanShiftX(position_buffer) > 30) =>
                result'.returned = "swipe_right"
          /\ (Sweeps(position_buffer, -1) /\ MeanShiftX(position_buffer) < -30) =>
                result'.returned = "swipe_left"]_vars

\* a leftward swipe was returned for a hand that moved evenly to the left by
\* 0.24 at a fixed height
C21_Witness ==
    /\ call.op = "analyze_movement"
    /\ result.returned = "swipe_left"
    /\ Sweeps(call.analysed, -1)
    /\ call.analysed[1][1] - call.analysed[5][1] = 24
    /\ call.buffered = 5
    /\ call.last = 0
    /\ position_buffer = <<>>
    /\ last_dynamic_gesture_time = now

\* three times the mean y of the last 3 positions minus the mean y of the
\* first 3
MeanShiftY(buf) ==
    (buf[Len(buf)][2] + buf[Len(buf) - 1][2] + buf[Len(buf) - 2][2])
        - (buf[1][2] + buf[2][2] + buf[3][2])

\* |a| > 0.10 and |a| > 1.5 * |b|, for a and b three times a mean shift
Dominates(a, b) ==
    LET abs_a == IF a < 0 THEN -a ELSE a
        abs_b == IF b < 0 THEN -b ELSE b
    IN abs_a > 30 /\ 2 * abs_a > 3 * abs_b

\* C25: with the cooldown elapsed and at least 5 positions buffered,
\* analyze_movement returns left (dx < 0) or right (dx > 0) exactly when
\* |dx| > 0.10 and |dx| > 1.5*|dy|, up (dy < 0) or down (dy > 0) exactly when
\* |dy| > 0.10 and |dy| > 1.5*|dx|, and none in every other case; the two
\* conditions never hold together.
C25_DirectionRule ==
    [][(AnalysedAfterCooldown /\ Len(position_buffer) >= 5) =>
          LET dx == MeanShiftX(position_buffer)
              dy == MeanShiftY(position_buffer)
              out == result'.returned
          IN /\ ~(Dominates(dx, dy) /\ Dominates(dy, dx))
             /\ out = "swipe_left" <=> (Dominates(dx, dy) /\ dx < 0)
             /\ out = "swipe_right" <=> (Dominates(dx, dy) /\ dx > 0)
             /\ out = "swipe_up" <=> (Dominates(dy, dx) /\ dy < 0)
             /\ out = "swipe_down" <=> (Dominates(dy, dx) /\ dy > 0)
             /\ out = None <=> (~Dominates(dx, dy) /\ ~Dominates(dy, dx))]_vars

\* an upward swipe was returned for a hand that moved up by more than 1.5
\* times as far as it moved to the right, both shifts above the threshold
C25_Witness ==
    /\ call.op = "analyze_movement"
    /\ result.returned = "swipe_up"
    /\ MeanShiftX(call.analysed) > 30
    /\ MeanShiftY(call.analysed) < -30
    /\ call.last = 0

\* C26: an analyze_movement call that detects a swipe empties the buffer and
\* sets the cooldown timestamp to the time of the call; one that returns none
\* leaves the buffer and the cooldown timestamp unchanged.
C26_AnalyzeEffect ==
    [][call'.op = "analyze_movement" =>
          IF result'.returned # None
          THEN position_buffer' = <<>> /\ last_dynamic_gesture_time' = now'
          ELSE /\ position_buffer' = position_buffer
               /\ last_dynamic_gesture_time' = last_dynamic_gesture_time]_vars

\* a swipe was detected later than construction and after an earlier one: the
\* buffer is empty and the cooldown timestamp is the time of the call
C26_Witness ==
    /\ call.op = "analyze_movement"
    /\ result.returned # None
    /\ call.buffered >= 5
    /\ call.last > 0
    /\ now > call.last
    /\ position_buffer = <<>>
    /\ last_dynamic_gesture_time = now

\* the last call was made with a hand of 21 landmarks
WholeHand(op) == call.op = op /\ Len(call.landmarks) = 21

\* C22: extract_features returns a vector of one fixed length, 63 + 14 + 6 =
\* 83, for every 21-landmark hand, get_feature_names returns a list of that
\* length, and the i-th name denotes the quantity at index i of the vector:
\* the coordinates landmark by landmark, then the distances in key order,
\* then the angles in key order.
C22_NamesMatchFeatures ==
    WholeHand("extract_features") =>
        LET features == result.returned
            names == get_feature_names
            normalized == normalize_landmarks(call.landmarks).returned
            distances == calculate_distances(normalized)
            angles == calculate_angles(normalized)
            axes == <<"x", "y", "z">>
        IN /\ Len(features) = 83
           /\ Len(names) = 83
           /\ Len(distances) = 14
           /\ Len(angles) = 6
           /\ \A k \in 0..20, a \in 1..3 :
                 /\ names[3 * k + a] = LANDMARK_NAMES[k + 1] \o "_" \o axes[a]
                 /\ features[3 * k + a].coordinate = normalized.points[k + 1][a]
           /\ \A j \in 1..14 :
                 /\ names[63 + j] = distances[j][1]
                 /\ features[63 + j] = distances[j][2]
           /\ \A j \in 1..6 :
                 /\ names[77 + j] = angles[j][1]
                 /\ features[77 + j] = angles[j][2]

\* 83 features were returned for a spread hand whose five tip-to-wrist
\* distances differ from its tip-to-palm distances
C22_Witness ==
    /\ WholeHand("extract_features")
    /\ Len(result.returned) = 83
    /\ \A j \in 64..68 : result.returned[j] # result.returned[j + 5]
    /\ result.returned[64] # result.returned[65]

\* C23: extract_features and normalize_landmarks called with a hand that does
\* not hold exactly 21 landmarks raise an error to their caller and return no
\* feature vector, be it default, zero-filled or partial.
C23_WrongSizeRaises ==
    (call.op \in {"normalize_landmarks", "extract_features"}
        /\ Len(call.landmarks) # 21) =>
        /\ DOMAIN result = {"raised"}
        /\ result.raised = "ValueError"

\* extract_features has refused a hand of 20 landmarks
C23_Witness ==
    /\ call.op = "extract_features"
    /\ Len(call.landmarks) = 20
    /\ "raised" \in DOMAIN result

\* the arrays a and b hold the same normalized points
SameNormalized(a, b) ==
    /\ Len(a.points) = Len(b.points)
    /\ \A i \in 1..Len(a.points), x \in 1..3 :
          LET p == a.points[i][x]
              q == b.points[i][x]
          IN /\ (p > 0) = (q > 0)
             /\ (p < 0) = (q < 0)
             /\ p * p * Scale2(b) = q * q * Scale2(a)

\* C24: normalization is translation and scale invariant: the hand scaled by
\* any positive factor and moved by any vector normalizes to the same array
\* as the hand itself; the normalized wrist is the origin and, unless all
\* points coincide, the largest norm of a normalized point is 1.
C24_NormalizationInvariant ==
    WholeHand("normalize_landmarks") =>
        LET normalized == result.returned
            norms2 == [i \in 1..21 |-> SqNorm(normalized.points[i])]
            coincide == \A i \in 1..21 : call.landmarks[i] = call.landmarks[1]
        IN /\ \A t \in Translations, s \in Scales :
                 SameNormalized(
                     normalize_landmarks(Transform(call.landmarks, t, s)).returned,
                     normalized)
           /\ normalized.points[1] = <<0, 0, 0>>
           /\ coincide => \A i \in 1..21 : norms2[i] = 0
           /\ ~coincide =>
                 /\ \E i \in 1..21 : norms2[i] = Scale2(normalized)
                 /\ \A i \in 1..21 : norms2[i] <= Scale2(normalized)
                 /\ normalized.scale2 > 0

\* a spread or clenched hand, enlarged three times and moved away, has been
\* normalized
C24_Witness ==
    /\ WholeHand("normalize_landmarks")
    /\ \E h \in Shapes : call.landmarks = Transform(h, <<3, 3, 3>>, 3)
    /\ result.returned.scale2 > 0
    /\ result.returned.points[1] = <<0, 0, 0>>

\* what a safe-mode trigger is and does: the label is the held one, the call
\* comes at least 2.0 s after the hold start and more than 1.0 s after
\* last_action_time, it logs the action, stamps last_action_time and clears
\* the hold
SafeTriggerRule ==
    /\ call'.gesture = call'.held
    /\ call'.held = active_gesture
    /\ now' - gesture_start_time >= 20
    /\ now' - last_action_time > 10
    /\ Len(history') = Len(history) + 1
    /\ Tail(history') = history
    /\ Head(history').gesture = call'.gesture
    /\ last_action_time' = now'
    /\ active_gesture' = None
    /\ gesture_start_time' = 0

\* C27: safe mode returns action_triggered=true only on a call whose label
\* is the held gesture, made at least 2.0 s after the hold start and more
\* than 1.0 s after last_action_time, and that call logs the action, sets
\* last_action_time to its time and clears the held gesture and hold start.
C27_SafeTrigger ==
    [][(Called /\ mode = "safe" /\ result'.action_triggered) =>
          SafeTriggerRule]_vars

\* C27 (amended): the same for the calls in which no swipe is detected.
C27_SafeTriggerStatic ==
    [][(NoSwipe /\ mode = "safe" /\ result'.action_triggered) =>
          SafeTriggerRule]_vars

\* a second hold has triggered in safe mode, 2.5 s after its start
C27_Witness ==
    /\ call.op = "process_gesture"
    /\ call.dynamic = None
    /\ mode = "safe"
    /\ result.action_triggered
    /\ call.gesture = call.held
    /\ now - call.held_since = 25
    /\ last_action_time = now
    /\ active_gesture = None
    /\ Len(history) >= 2

\* the call restarts the hold with its own label or clears it
RestartsOrClears ==
    \/ active_gesture' = None /\ gesture_start_time' = 0
    \/ active_gesture' = call'.gesture /\ gesture_start_time' = now'

\* the call meets a hold in safe mode and carries another label, or a
\* confidence below 0.7
BreaksHold ==
    /\ Called
    /\ mode = "safe"
    /\ active_gesture # None
    /\ call'.gesture # active_gesture \/ call'.confidence < 70

\* C28: in safe mode every call that carries a label other than the held one,
\* or a confidence below 0.7, restarts or clears the hold, a call in which a
\* swipe is detected included; so a hold triggers only if every call since
\* its start carried its label with confidence >= 0.7.
C28_HoldNeedsEveryCall ==
    [][BreaksHold => RestartsOrClears]_vars

\* C28 (amended): the same for the calls in which no swipe is detected.
C28_HoldNeedsEveryStaticCall ==
    [][(BreaksHold /\ NoSwipe) => RestartsOrClears]_vars

\* in safe mode a call with the held label and a confidence below 0.7 has
\* cleared a hold that was 1.0 s old or older
C28_Witness ==
    /\ call.op = "process_gesture"
    /\ mode = "safe"
    /\ call.dynamic = None
    /\ call.confidence < min_confidence
    /\ call.held = call.gesture
    /\ now - call.held_since >= 10
    /\ active_gesture = None
    /\ ~result.action_triggered

\* the call continues the hold in safe mode
Continues ==
    /\ Confident
    /\ mode = "safe"
    /\ active_gesture # None
    /\ call'.gesture = active_gesture

\* progress in [0, 1]; min(elapsed / 2.0, 1.0) on a call that continues the
\* hold (when rule holds for the call); no less than the progress returned
\* by the previous call of the same hold
ProgressRule(rule) ==
    /\ Called => result'.progress \in 0..100
    /\ (Continues /\ rule) =>
          LET elapsed == now' - gesture_start_time
          IN result'.progress = (IF 5 * elapsed < 100 THEN 5 * elapsed ELSE 100)
    /\ (Continues /\ rule /\ call.op = "process_gesture") =>
          result'.progress >= result.progress

\* C29: in safe mode a call that continues the held label returns progress =
\* min(elapsed / 2.0, 1.0); the progress returned is within [0, 1] in every
\* mode and never decreases from one call to the next within one hold.
C29_Progress == [][ProgressRule(TRUE)]_vars

\* C29 (amended): the same for the calls in which no swipe is detected.
C29_ProgressStatic == [][ProgressRule(NoSwipe)]_vars

\* a call that continued a hold more than 2.0 s after its start returned
\* progress 1.0
C29_Witness ==
    /\ call.op = "process_gesture"
    /\ call.dynamic = None
    /\ mode = "safe"
    /\ call.gesture = call.held
    /\ call.confidence >= min_confidence
    /\ now - call.held_since > 20
    /\ result.progress = 100

\* C30: the hold is tracked only in safe mode: a held gesture other than none
\* implies mode = safe, and every process_gesture call made in standard or
\* all mode returns progress 0 and leaves held gesture and hold start unset.
C30_HoldOnlyInSafe ==
    [][/\ active_gesture' # None => mode' = "safe"
       /\ (Called /\ mode \in {"standard", "all"}) =>
             /\ result'.progress = 0
             /\ active_gesture' = None
             /\ gesture_start_time' = 0]_vars

\* after a session in safe mode, a call in standard or all mode triggered
\* and left no hold
C30_Witness ==
    /\ call.op = "process_gesture"
    /\ \E i \in DOMAIN history : history[i].mode = "safe"
    /\ mode \in {"standard", "all"}
    /\ call.confidence >= min_confidence
    /\ result.action_triggered
    /\ result.progress = 0
    /\ active_gesture = None
    /\ gesture_start_time = 0
    /\ last_action_time = now

----------------------------------------------------------------------------
\* C31: whenever a gesture is held, last_action_time is not later than the
\* hold start; hence every safe-mode call that returns progress 1.0 also
\* returns action_triggered=true: the cooldown never delays a completed
\* hold.
C31_CooldownNeverDelays ==
    /\ active_gesture # None => last_action_time <= gesture_start_time
    /\ (call.op = "process_gesture" /\ mode = "safe"
            /\ result.progress = 100) => result.action_triggered

\* a hold that started in the tick of a standard-mode trigger has completed
\* and triggered 2.0 s later
C31_Witness ==
    /\ call.op = "process_gesture"
    /\ mode = "safe"
    /\ result.progress = 100
    /\ result.action_triggered
    /\ Len(history) >= 2
    /\ history[2].mode = "standard"
    /\ history[2].timestamp = now - hold_duration

----------------------------------------------------------------------------
\* the call was handled by the static policy and triggered
StaticTrigger == NoSwipe /\ result'.action_triggered

\* the buffer as the movement block of a call without swipe leaves it
AfterMovementBlock ==
    {add_position(position_buffer, lm) : lm \in LandmarkInputs}

\* the step empties a buffer that held positions
Emptied == position_buffer # <<>> /\ position_buffer' = <<>>

\* C32: static-gesture processing never modifies the movement buffer: a
\* static trigger in standard, safe or all mode leaves the buffered wrist
\* positions as they are, and the buffer is emptied only by a swipe
\* detection, by an accepted set_mode or by a reset requested by the caller.
C32_StaticKeepsBuffer ==
    [][/\ StaticTrigger => position_buffer' \in AfterMovementBlock
       /\ Emptied =>
              \/ Called /\ call'.dynamic # None
              \/ call'.op = "set_mode" /\ result'.accepted
              \/ call'.op = "reset_state"]_vars

----------------------------------------------------------------------------
\* the ids of the log fall strictly from the newest entry to the oldest
IdsDecrease(h) == \A i, j \in DOMAIN h : i < j => h[i].id > h[j].id

\* C33: after any number of triggers, more than the capacity of 100
\* included, the entries of the history have pairwise distinct sequence ids,
\* strictly decreasing from the newest entry to the oldest, and an entry
\* keeps the id it was appended with.
C33_SequenceIds ==
    [][/\ IdsDecrease(history')
       /\ history' # history =>
             Tail(history') = SubSeq(history, 1, Len(history') - 1)]_vars

----------------------------------------------------------------------------
\* the time of the last static trigger returned, in whatever mode
LastStaticTrigger ==
    Max(last_trigger["standard"].static,
        Max(last_trigger["safe"].static, last_trigger["all"].static))

\* C34: cooldowns carry across a mode switch: set_mode, accepted or
\* rejected, leaves last_action_time and the swipe cooldown timestamp
\* unchanged, so that no static trigger is returned within 1.0 s (standard,
\* safe) or 0.5 s (all) of the last static trigger, whatever the mode that
\* one was returned in.
C34_CooldownsSurviveSwitch ==
    [][/\ call'.op = "set_mode" =>
             UNCHANGED <<last_action_time, last_dynamic_gesture_time>>
       /\ StaticTrigger =>
             now' - LastStaticTrigger >
                 (IF mode = "all" THEN all_throttle ELSE cooldown)]_vars

\* a standard-mode call 0.5 s after an all-mode trigger and the switch that
\* followed it was suppressed, with a swipe detected before the switch
C34_Witness ==
    /\ call.op = "process_gesture"
    /\ call.dynamic = None
    /\ call.confidence >= min_confidence
    /\ mode = "standard"
    /\ ~result.action_triggered
    /\ last_trigger["all"].static = now - all_throttle
    /\ last_trigger["standard"].static < last_trigger["all"].static
    /\ last_action_time = last_trigger["all"].static
    /\ last_dynamic_gesture_time > 0

----------------------------------------------------------------------------
\* the step is an analyze_movement call, the first one made after the
\* cooldown of an earlier detection has ended: the clock stood inside the
\* cooldown when the buffered positions were added, and the detection had
\* emptied the buffer before
FirstAnalysisAfterCooldown ==
    /\ call'.op = "analyze_movement"
    /\ last_dynamic_gesture_time > 0
    /\ now - last_dynamic_gesture_time < analyzer_cooldown
    /\ now' - last_dynamic_gesture_time >= analyzer_cooldown

\* C35: one continuous motion yields at most one swipe: the positions added
\* while the swipe cooldown is active are not used for a later detection, so
\* the first analysis after the cooldown has ended detects no swipe from
\* positions that were all recorded during the cooldown.
C35_OneSwipePerMotion ==
    [][FirstAnalysisAfterCooldown => result'.returned = None]_vars

----------------------------------------------------------------------------
\* C36: in the running detection loop the controller receives the first
\* hand's raw landmarks together with its label and confidence on every
\* processed frame (so that the wrist positions reach the movement buffer
\* and a swipe can trigger in the service).
C36_ServicePassesLandmarks ==
    [][\A k \in Sessions : DetectionBy(k) => frames' = frames + 1]_vars

----------------------------------------------------------------------------
\* the step is a process_gesture call fed with a result of predict
Recognized == Called /\ "features" \in DOMAIN call'

\* predict could not classify: no model loaded, the features are not an
\* array or are empty, or the prediction raised
PredictFailed ==
    \/ ~recognizer.loaded
    \/ call'.features.type # "ndarray"
    \/ call'.features.size = 0
    \/ call'.outcome.raises

\* C37: every failure result of the classifier is a sentinel label paired
\* with confidence 0.0, so that the process_gesture call it is fed to, without
\* landmarks, triggers no action, adds no history entry and clears any hold
\* in progress, in every mode; no history entry carries a sentinel label.
C37_FailureNeverTriggers ==
    [][(Recognized /\ PredictFailed) =>
          /\ call'.gesture \in Sentinels
          /\ call'.confidence = 0
          /\ ~result'.action_triggered
          /\ result'.progress = 0
          /\ history' = history
          /\ \A i \in DOMAIN history' : history'[i].gesture \notin Sentinels
          /\ active_gesture' = None
          /\ gesture_start_time' = 0
          /\ UNCHANGED <<mode, last_action_time>>]_vars

\* in safe mode a prediction that raised has cleared a hold that was due to
\* trigger, after an earlier trigger
C37_Witness ==
    /\ call.op = "process_gesture"
    /\ "features" \in DOMAIN call
    /\ call.gesture = "Error"
    /\ mode = "safe"
    /\ call.held # None
    /\ now - call.held_since >= hold_duration
    /\ active_gesture = None
    /\ history # <<>>

----------------------------------------------------------------------------
\* the collection loops that have been added and have not finished
ActiveLoops(tr) == {i \in DOMAIN tr.loops : tr.loops[i].pc # "finished"}

\* the number of samples saved for the collection of the start request
\* accepted last
SavedForCurrent(tr) == IF tr.accepted = 0 THEN 0 ELSE tr.saved[tr.accepted]

\* C38: at most one training-data collection loop is active at any time,
\* under any interleaving of start_collection, stop_collection and the
\* loop's sleeps: after stop_collection the loop that was running saves no
\* further sample, even if a start_collection for another gesture is accepted
\* before it wakes up, and samples_collected counts the samples of the
\* current collection only.
C38_OneCollectionLoop ==
    [][/\ Cardinality(ActiveLoops(training')) <= 1
       /\ \A i \in DOMAIN training.loops :
             (call'.op = "_collect_data_loop" /\ call'.loop = i
                 /\ training.loops[i].stopped) =>
                 training'.saved = training.saved
       /\ training'.samples_collected = SavedForCurrent(training')]_vars

====
